---- MODULE Spec2Model ----
(***************************************************************************)
(* TCMB exchange-rate retrieval pipeline: the business-day calendar        *)
(* (core/holidays.py), the historical URL builder (core/constants.py),     *)
(* the bulletin parser (utils/xml_parser.py), the HTTP client with         *)
(* throttling, retry/backoff and holiday fallback                          *)
(* (services/tcmb_client.py), the JSON form of a snapshot                  *)
(* (models/schemas.py) and the SQLite cache (services/cache_service.py).   *)
(*                                                                         *)
(* Dates are proleptic Gregorian ordinals, as datetime.date.toordinal().   *)
(* The event loop's time is the discrete clock `now`, the wall clock is    *)
(* `wall`; one tick is the model's time unit.                              *)
(***************************************************************************)
EXTENDS Integers, Sequences, FiniteSets, TLC

(***************************************************************************)
(* Option values: Python's None and a present value.                       *)
(***************************************************************************)
None == <<>>
Some(x) == <<x>>
IsNone(o) == o = <<>>
The(o) == o[1]

(***************************************************************************)
(* datetime.date arithmetic                                                *)
(***************************************************************************)
IsLeap(y) == (y % 4 = 0) /\ ((y % 100 # 0) \/ (y % 400 = 0))

DaysBeforeMonthTable == <<0, 31, 59, 90, 120, 151, 181, 212, 243, 273, 304, 334>>

DaysInMonth(y, m) ==
    IF m = 2 THEN (IF IsLeap(y) THEN 29 ELSE 28)
    ELSE IF m \in {4, 6, 9, 11} THEN 30 ELSE 31

DaysBeforeYear(y) ==
    ((y - 1) * 365) + ((y - 1) \div 4) - ((y - 1) \div 100) + ((y - 1) \div 400)

DaysBeforeMonth(y, m) ==
    DaysBeforeMonthTable[m] + (IF m > 2 /\ IsLeap(y) THEN 1 ELSE 0)

\* date(y, m, d).toordinal()
date(y, m, d) == DaysBeforeYear(y) + DaysBeforeMonth(y, m) + d

\* date(y, m, d) raises ValueError unless the triple is a calendar date
ValidYMD(y, m, d) ==
    /\ y \in 1..9999
    /\ m \in 1..12
    /\ d >= 1
    /\ d <= DaysInMonth(y, m)

\* date.fromordinal(n): the record [year, month, day]
fromordinal(n) ==
    LET n0   == n - 1
        n400 == n0 \div 146097
        r400 == n0 % 146097
        n100 == r400 \div 36524
        r100 == r400 % 36524
        n4   == r100 \div 1461
        r4   == r100 % 1461
        n1   == r4 \div 365
        r1   == r4 % 365
        y    == (n400 * 400) + 1 + (n100 * 100) + (n4 * 4) + n1
    IN  IF n1 = 4 \/ n100 = 4
        THEN [year |-> y - 1, month |-> 12, day |-> 31]
        ELSE LET m == CHOOSE mm \in 1..12 :
                        /\ DaysBeforeMonth(y, mm) <= r1
                        /\ r1 < DaysBeforeMonth(y, mm) + DaysInMonth(y, mm)
             IN  [year |-> y, month |-> m, day |-> (r1 - DaysBeforeMonth(y, m)) + 1]

\* The dates the model computes with: from the longest lookback before the
\* first requested date to the last one (fromordinal is evaluated once for each:
\* f @@ << >> is the function f, held as an explicit table)
CalendarFirst == date(2024, 3, 1)
CalendarLast == date(2024, 5, 31)
\* The dates of the documented examples of get_historical_url
ExampleDates == { date(2024, 1, 5), date(2024, 12, 25) }
YMDTable == [n \in (CalendarFirst..CalendarLast) \cup ExampleDates |-> fromordinal(n)] @@ << >>

\* The year, month and day of date n
YMD(n) == YMDTable[n]

\* d.weekday(): Monday = 0 ... Sunday = 6
weekday(d) == (d + 6) % 7

(***************************************************************************)
(* core/holidays.py                                                        *)
(***************************************************************************)
FIXED_HOLIDAYS ==
    { <<1, 1>>, <<4, 23>>, <<5, 1>>, <<5, 19>>, <<7, 15>>, <<8, 30>>, <<10, 29>> }

RELIGIOUS_HOLIDAYS ==
    { date(2024, 4, 10), date(2024, 4, 11), date(2024, 4, 12),
      date(2024, 6, 16), date(2024, 6, 17), date(2024, 6, 18), date(2024, 6, 19),
      date(2025, 3, 30), date(2025, 3, 31), date(2025, 4, 1),
      date(2025, 6, 6), date(2025, 6, 7), date(2025, 6, 8), date(2025, 6, 9),
      date(2026, 3, 20), date(2026, 3, 21), date(2026, 3, 22),
      date(2026, 5, 27), date(2026, 5, 28), date(2026, 5, 29), date(2026, 5, 30) }

\* The two tables are objects of the module, FIXED_HOLIDAYS and
\* RELIGIOUS_HOLIDAYS as written above unless a caller has put others in
\* their place
VARIABLES
    fixed_holidays,      \* the content of FIXED_HOLIDAYS
    religious_holidays,  \* the keys of RELIGIOUS_HOLIDAYS
    cal                  \* the call of get_previous_business_day or
                         \* get_next_business_day in progress, its locals, and
                         \* history: the dates its loop condition has looked at

holidayVars == << fixed_holidays, religious_holidays, cal >>

\* Mutant of is_weekend: Saturday is a working day
is_weekend_SundayOnly(d) == weekday(d) >= 6

\* Lines 45-47
is_weekend(d) == weekday(d) >= 5

is_fixed_holiday(d) == <<YMD(d).month, YMD(d).day>> \in fixed_holidays

is_religious_holiday(d) == d \in religious_holidays

is_holiday(d) == is_weekend(d) \/ is_fixed_holiday(d) \/ is_religious_holiday(d)

max_lookback == 30

\* The while loop of get_previous_business_day, entered with `current`:
\* Some(day) when it returns, None when it raises ValueError.
RECURSIVE PrevLoop(_, _)
PrevLoop(d, current) ==
    IF ~is_holiday(current) THEN Some(current)
    ELSE IF (d - (current - 1)) > max_lookback THEN None
    ELSE PrevLoop(d, current - 1)

get_previous_business_day(d) == PrevLoop(d, d - 1)

max_lookforward == 30

\* The while loop of get_next_business_day, entered with `current`
RECURSIVE NextLoop(_, _)
NextLoop(d, current) ==
    IF ~is_holiday(current) THEN Some(current)
    ELSE IF ((current + 1) - d) > max_lookforward THEN None
    ELSE NextLoop(d, current + 1)

get_next_business_day(d) == NextLoop(d, d + 1)

(***************************************************************************)
(* core/constants.py: URLs.  A URL is the tuple of its path segments after *)
(* the base; the date segments are sequences of decimal digits, as         *)
(* strftime("%Y%m") and strftime("%d%m%Y") print them.                     *)
(***************************************************************************)
DigitChars == << "0", "1", "2", "3", "4", "5", "6", "7", "8", "9" >>
Digit(n) == DigitChars[n + 1]

\* "%d", "%m" (two digits, zero padded) and "%Y" (four digits)
Pad2(n) == << Digit((n \div 10) % 10), Digit(n % 10) >>
Pad4(n) ==
    << Digit((n \div 1000) % 10), Digit((n \div 100) % 10),
       Digit((n \div 10) % 10), Digit(n % 10) >>

\* A URL is a text: the literal parts of the f-strings in one piece each, the
\* digits strftime prints one character each
TCMB_BASE_URL == "https://www.tcmb.gov.tr"
TCMB_TODAY_URL == << TCMB_BASE_URL, "/kurlar/today.xml" >>

\* Mutant of get_historical_url: the file is named month first (MMDDYYYY)
get_historical_url_MonthFirst(target_date) ==
    LET t == YMD(target_date)
        folder   == Pad4(t.year) \o Pad2(t.month)
        filename == Pad2(t.month) \o Pad2(t.day) \o Pad4(t.year)
    IN  << TCMB_BASE_URL, "/kurlar/" >> \o folder \o << "/" >> \o filename \o << ".xml" >>

\* Lines 26-28
get_historical_url(target_date) ==
    LET t == YMD(target_date)
        folder   == Pad4(t.year) \o Pad2(t.month)
        filename == Pad2(t.day) \o Pad2(t.month) \o Pad4(t.year)
    IN  << TCMB_BASE_URL, "/kurlar/" >> \o folder \o << "/" >> \o filename \o << ".xml" >>

(***************************************************************************)
(* utils/xml_parser.py.  A text is a sequence of one-character strings.    *)
(* A document is what defusedxml hands back: `wf` is FALSE when            *)
(* ET.fromstring raises ParseError; Tarih and Bulten_No are the root's     *)
(* attributes, `currencies` the <Currency> elements in document order,     *)
(* each with its CurrencyCode attribute and the texts of its children      *)
(* (None: the child is missing or empty).                                  *)
(***************************************************************************)
IsSpace(c) == c = " "
IsDigitChar(c) == \E i \in 1..10 : DigitChars[i] = c
DigitVal(c) == (CHOOSE i \in 1..10 : DigitChars[i] = c) - 1

RECURSIVE LStrip(_)
LStrip(t) == IF t # <<>> /\ IsSpace(Head(t)) THEN LStrip(Tail(t)) ELSE t

RECURSIVE RStrip(_)
RStrip(t) ==
    IF t # <<>> /\ IsSpace(t[Len(t)]) THEN RStrip(SubSeq(t, 1, Len(t) - 1)) ELSE t

\* str.strip()
Strip(t) == RStrip(LStrip(t))

\* str.split("."): the parts between the separators, empty ones included
RECURSIVE SplitDot(_, _)
SplitDot(t, cur) ==
    IF t = <<>> THEN << cur >>
    ELSE IF Head(t) = "." THEN << cur >> \o SplitDot(Tail(t), <<>>)
    ELSE SplitDot(Tail(t), Append(cur, Head(t)))

AllDigits(t) == t # <<>> /\ \A i \in 1..Len(t) : IsDigitChar(t[i])

RECURSIVE DigitsValue(_, _)
DigitsValue(t, acc) ==
    IF t = <<>> THEN acc ELSE DigitsValue(Tail(t), (acc * 10) + DigitVal(Head(t)))

\* int(text): Some(n), or None when int() raises ValueError
int(t) ==
    LET s    == Strip(t)
        neg  == s # <<>> /\ Head(s) = "-"
        body == IF s # <<>> /\ Head(s) \in {"-", "+"} THEN Tail(s) ELSE s
    IN  IF AllDigits(body)
        THEN Some(IF neg THEN 0 - DigitsValue(body, 0) ELSE DigitsValue(body, 0))
        ELSE None

\* Decimal(text): the value as [neg, coeff, exp] (coeff * 10^exp), or None
\* when Decimal() raises InvalidOperation
Decimal(t) ==
    LET neg   == t # <<>> /\ Head(t) = "-"
        body  == IF t # <<>> /\ Head(t) \in {"-", "+"} THEN Tail(t) ELSE t
        parts == SplitDot(body, <<>>)
        ip    == parts[1]
        fp    == IF Len(parts) = 2 THEN parts[2] ELSE <<>>
    IN  IF /\ Len(parts) <= 2
           /\ ip \o fp # <<>>
           /\ \A i \in 1..Len(ip \o fp) : IsDigitChar((ip \o fp)[i])
        THEN Some([neg |-> neg, coeff |-> DigitsValue(ip \o fp, 0), exp |-> 0 - Len(fp)])
        ELSE None

_parse_decimal(value) ==
    IF IsNone(value) \/ Strip(The(value)) = <<>> THEN None
    ELSE Decimal(Strip(The(value)))

\* _parse_date: [kind |-> "ok", date], or the exception it raises
_parse_date(date_str) ==
    LET parts == SplitDot(date_str, <<>>)
    IN  IF Len(parts) # 3 THEN [kind |-> "TCMBAPIError", status_code |-> None]
        ELSE LET day   == int(parts[1])
                 month == int(parts[2])
                 year  == int(parts[3])
             IN  IF IsNone(day) \/ IsNone(month) \/ IsNone(year)
                 THEN [kind |-> "ValueError"]
                 ELSE IF ~ValidYMD(The(year), The(month), The(day))
                 THEN [kind |-> "ValueError"]
                 ELSE [kind |-> "ok", date |-> date(The(year), The(month), The(day))]

\* One <Currency> element: Some(CurrencyRate), None when it is skipped, or
\* "ValueError" when int(unit_str) raises
ParseCurrency(elem) ==
    IF IsNone(elem.CurrencyCode) \/ The(elem.CurrencyCode) = <<>> THEN [kind |-> "skip"]
    ELSE LET code     == The(elem.CurrencyCode)
             unit_str == elem.Unit
             hasUnit  == ~IsNone(unit_str) /\ The(unit_str) # <<>>
         IN  IF hasUnit /\ IsNone(int(The(unit_str))) THEN [kind |-> "ValueError"]
             ELSE [kind |-> "ok",
                   rate |-> [code |-> code,
                             name |-> IF IsNone(elem.CurrencyName) \/ The(elem.CurrencyName) = <<>>
                                      THEN code ELSE The(elem.CurrencyName),
                             name_tr |-> IF IsNone(elem.Isim) \/ The(elem.Isim) = <<>>
                                         THEN code ELSE The(elem.Isim),
                             unit |-> IF hasUnit THEN The(int(The(unit_str))) ELSE 1,
                             forex_buying |-> _parse_decimal(elem.ForexBuying),
                             forex_selling |-> _parse_decimal(elem.ForexSelling),
                             banknote_buying |-> _parse_decimal(elem.BanknoteBuying),
                             banknote_selling |-> _parse_decimal(elem.BanknoteSelling),
                             cross_rate_usd |-> _parse_decimal(elem.CrossRateUSD),
                             cross_rate_other |-> _parse_decimal(elem.CrossRateOther)]]

\* Mutant of ParseCurrencies: a record whose code is already in the list
\* replaces nothing and is dropped
RECURSIVE ParseCurrencies_OnePerCode(_, _)
ParseCurrencies_OnePerCode(elems, rates) ==
    IF elems = <<>> THEN Some(rates)
    ELSE LET r == ParseCurrency(Head(elems))
         IN  IF r.kind = "ValueError" THEN None
             ELSE IF r.kind = "skip" \/ (\E i \in 1..Len(rates) : rates[i].code = r.rate.code)
             THEN ParseCurrencies_OnePerCode(Tail(elems), rates)
             ELSE ParseCurrencies_OnePerCode(Tail(elems), Append(rates, r.rate))

\* The for loop over root.findall("Currency"): Some(list), or None when an
\* element raised ValueError
RECURSIVE ParseCurrencies(_, _)
ParseCurrencies(elems, rates) ==
    IF elems = <<>> THEN Some(rates)
    ELSE LET r == ParseCurrency(Head(elems))
         IN  IF r.kind = "ValueError" THEN None
             ELSE IF r.kind = "skip" THEN ParseCurrencies(Tail(elems), rates)
             ELSE ParseCurrencies(Tail(elems), Append(rates, r.rate))

\* Mutant of parse_tcmb_xml: a root without Tarih is taken for an empty
\* bulletin of the first date
parse_tcmb_xml_DateOptional(xml_content) ==
    IF ~xml_content.wf THEN [kind |-> "TCMBAPIError", status_code |-> None]
    ELSE IF IsNone(xml_content.Tarih) \/ The(xml_content.Tarih) = <<>>
    THEN [kind |-> "ok",
          rates |-> [date |-> date(2024, 4, 8), bulletin_no |-> xml_content.Bulten_No,
                     rates |-> << >>, warning |-> None]]
    ELSE LET rates_date == _parse_date(The(xml_content.Tarih))
         IN  IF rates_date.kind # "ok" THEN rates_date
             ELSE LET rates == ParseCurrencies(xml_content.currencies, <<>>)
                  IN  IF IsNone(rates) THEN [kind |-> "ValueError"]
                      ELSE [kind |-> "ok",
                            rates |-> [date |-> rates_date.date,
                                       bulletin_no |-> xml_content.Bulten_No,
                                       rates |-> The(rates),
                                       warning |-> None]]

\* parse_tcmb_xml: [kind |-> "ok", rates |-> ExchangeRates], or the
\* exception it raises
parse_tcmb_xml(xml_content) ==
    IF ~xml_content.wf THEN [kind |-> "TCMBAPIError", status_code |-> None]
    ELSE IF IsNone(xml_content.Tarih) \/ The(xml_content.Tarih) = <<>>
    THEN [kind |-> "TCMBAPIError", status_code |-> None]
    ELSE LET rates_date == _parse_date(The(xml_content.Tarih))
         IN  IF rates_date.kind # "ok" THEN rates_date
             ELSE LET rates == ParseCurrencies(xml_content.currencies, <<>>)
                  IN  IF IsNone(rates) THEN [kind |-> "ValueError"]
                      ELSE [kind |-> "ok",
                            rates |-> [date |-> rates_date.date,
                                       bulletin_no |-> xml_content.Bulten_No,
                                       rates |-> The(rates),
                                       warning |-> None]]

\* One run of the parser and of what is asked of its result
VARIABLES
    xml_document,        \* the document handed to parse_tcmb_xml
    parse_ret,           \* how parse_tcmb_xml(xml_document) ended ("none": not called)
    unit_ret             \* the latest get_unit_rate call on a parsed rate and
                         \* how it ended

parseVars == << xml_document, parse_ret, unit_ret >>

NoDocument == [wf |-> FALSE, Tarih |-> None, Bulten_No |-> None, currencies |-> << >>]
NoParse == [kind |-> "none"]
NoUnitRate == [kind |-> "none"]

\* No document has been handed to the parser
ParserInit ==
    /\ xml_document = NoDocument
    /\ parse_ret = NoParse
    /\ unit_ret = NoUnitRate

(***************************************************************************)
(* Model parameters.  The four settings are core/config.py's fields, in    *)
(* clock ticks; the others bound the explored inputs.                      *)
(***************************************************************************)
MaxRetries == 3        \* settings.max_retries
RetryDelay == 1        \* settings.retry_delay
RequestDelay == 2      \* settings.request_delay
Timeout == 1           \* settings.timeout
MaxStart == 2          \* no call starts after this many ticks past the initial clock
NDays == 8             \* requested dates: FirstDate .. FirstDate + NDays
NFlows == 2            \* request-handling flows sharing the one client

\* Monday 8 April 2024; the window holds Ramazan Bayrami (10-12 April) and the
\* weekend after it
FirstDate == date(2024, 4, 8)
Dates == FirstDate .. (FirstDate + NDays)
Flows == 1 .. NFlows

(***************************************************************************)
(* The remote server: what one GET can end in.                             *)
(***************************************************************************)
\* "DD.MM.YYYY"
FormatTarih(d) ==
    LET t == YMD(d)
    IN  Pad2(t.day) \o << "." >> \o Pad2(t.month) \o << "." >> \o Pad4(t.year)

SampleCurrency ==
    [CurrencyCode |-> Some(<< "J", "P", "Y" >>),
     Unit |-> Some(<< "1", "0", "0" >>),
     Isim |-> Some(<< "Y", "E", "N" >>),
     CurrencyName |-> None,
     ForexBuying |-> Some(<< "2", "0", ".", "3", "4", "5", "6" >>),
     ForexSelling |-> Some(<< "2", "0", ".", "5" >>),
     BanknoteBuying |-> Some(<< >>),
     BanknoteSelling |-> None,
     CrossRateUSD |-> None,
     CrossRateOther |-> None]

Bulletin(d) ==
    [wf |-> TRUE, Tarih |-> Some(FormatTarih(d)),
     Bulten_No |-> Some(<< "2", "0", "2", "4", "/", "6", "7" >>),
     currencies |-> << SampleCurrency >>]

MalformedDoc == [wf |-> FALSE, Tarih |-> None, Bulten_No |-> None, currencies |-> << >>]

UndatedDoc == [wf |-> TRUE, Tarih |-> None, Bulten_No |-> None, currencies |-> << SampleCurrency >>]

\* 31 April: three numeric parts that are no calendar date
BadDateDoc ==
    [wf |-> TRUE, Tarih |-> Some(<< "3", "1", ".", "0", "4", ".", "2", "0", "2", "4" >>),
     Bulten_No |-> None, currencies |-> << >>]

\* The date a historical URL names (the server's side of get_historical_url)
UrlDate(url) ==
    date(DigitsValue(SubSeq(url, 14, 17), 0),
         DigitsValue(SubSeq(url, 12, 13), 0),
         DigitsValue(SubSeq(url, 10, 11), 0))

Bodies(url) ==
    (IF url = TCMB_TODAY_URL
     THEN { Bulletin(d) : d \in {FirstDate, FirstDate + 1} }
     ELSE { Bulletin(UrlDate(url)) })
    \cup { MalformedDoc, UndatedDoc, BadDateDoc }

\* The dates a fetch can be for: the requested ones, and the days two
\* recovery steps can lead back to (with the tables of the module, the
\* business day before the business day before FirstDate is four days back)
FetchDates == (FirstDate - 4) .. (FirstDate + NDays)

\* parse_tcmb_xml on every text the server can send, evaluated once
ParseTable ==
    [b \in UNION { Bodies(u) : u \in { TCMB_TODAY_URL } \cup { get_historical_url(d) : d \in FetchDates } }
        |-> parse_tcmb_xml(b)] @@ << >>

StatusCodes == { 200, 304, 403, 404, 500 }

\* A response with a status line, or an httpx exception raised by get()
Responses(url) ==
    { [kind |-> "response", status_code |-> c, text |-> << >>] : c \in StatusCodes \ {200} }
    \cup { [kind |-> "response", status_code |-> 200, text |-> b] : b \in Bodies(url) }
    \cup { [kind |-> k, status_code |-> 0, text |-> << >>] :
              k \in { "TimeoutException", "ConnectError", "ReadError" } }

(***************************************************************************)
(* services/tcmb_client.py: the state                                      *)
(***************************************************************************)
VARIABLES
    now,                 \* asyncio.get_event_loop().time()
    _client,             \* TCMBClient._client: None, or the open httpx session
    _last_request_time,  \* TCMBClient._last_request_time
    fl,                  \* per flow: the position and locals of its client call
    last_get,            \* history: time of the client's latest GET (0: none yet)
    min_gap,             \* history: least time between two consecutive GETs,
                         \* capped at RequestDelay
    wall,                \* services/cache_service.py: datetime.now(), in ticks
    _initialized,        \* CacheService._initialized
    schema,              \* the tables and indexes of the database file
    exchange_rates,      \* the rows of table exchange_rates
    cache_ret,           \* history: the latest cache operation and how it ended,
                         \* while the clock and the table are as it left them
    written,             \* history: per date, the snapshot of the latest set_rates
                         \* that stored a row for it, None once the row is deleted
    conn,                \* per writing flow: how far its set_rates has come, the
                         \* connection it opened and the row it has executed
    reserved             \* the flow whose connection holds the database's write
                         \* lock, 0 when none does

VARIABLES
    tool,                \* tools/rates.py: the position and locals of the tool call
    hist                 \* tools/history.py: the position and locals of get_rate_history

toolVars == << tool, hist >>

clientVars == << now, _client, _last_request_time, fl, last_get, min_gap >>
cacheVars == << wall, _initialized, schema, exchange_rates, cache_ret, written,
               conn, reserved >>
vars == << clientVars, cacheVars, holidayVars, parseVars, toolVars >>

NoResult == [kind |-> "none"]

\* No tool call has been made
IdleTool ==
    [pc |-> "idle",
     op |-> "none",            \* "current": get_current_rates, "historical":
                               \* get_historical_rates, "history": get_rate_history
     date |-> 0,               \* the date the cache is asked for: today, target_date
     hit |-> FALSE,            \* cache.get_rates returned a snapshot
     ret |-> NoResult,         \* what the call returned or raised
     rows0 |-> { },            \* history: the rows of the table when it was called
     stored |-> FALSE,         \* history: this call's set_rates stored a row
     served |-> { }]           \* history: the calls that fetched, stored and returned

\* get_rate_history has not been called
IdleHistory ==
    [pc |-> "idle",
     currency_code |-> << >>,
     start |-> 0,
     end |-> 0,
     current |-> 0,
     data_points |-> << >>,
     missing_days |-> 0,
     ret |-> NoResult,         \* what the call returned or raised
     obtained |-> { }]         \* history: per snapshot the loop got, its day and
                               \* whether it has the currency

ToolInit == tool = IdleTool /\ hist = IdleHistory
NoResponse == [kind |-> "none", status_code |-> 0, text |-> << >>]
Pending == [kind |-> "pending", status_code |-> 0, text |-> << >>]

\* A flow that is not inside a client call
IdleFlow ==
    [pc |-> "idle",
     op |-> "none",                \* "today": get_today_rates, "date": get_rates_for_date
     req_date |-> 0,               \* history: the caller's arguments
     req_hh |-> FALSE,
     depth |-> 0,                  \* recursion depth of get_rates_for_date
     handle_holidays |-> FALSE,    \* locals of the innermost get_rates_for_date
     original_date |-> 0,
     target_date |-> 0,
     warning |-> None,
     url |-> << >>,                \* locals of _fetch_with_retry
     attempt |-> 0,
     wake |-> 0,                   \* end of the asyncio.sleep in progress
     get_at |-> 0,                 \* start of the GET in flight
     fres |-> NoResult,            \* what the latest _fetch_with_retry ended in
     result |-> NoResult,          \* what the call ended in
     fetch_urls |-> << >>,         \* history: url of each _fetch_with_retry call
     first_fres |-> NoResult,      \* history: what the first _fetch_with_retry ended in
     n_gets |-> 0,                 \* history: GETs of the current _fetch_with_retry
     n_retryable |-> 0,            \* history: of those, the ones that failed retryably
     last_resp |-> NoResponse,     \* history: how the latest GET ended
     slept |-> << >>,              \* history: backoff sleeps of the current _fetch_with_retry
     cancelled |-> FALSE]          \* history: the caller's task was cancelled in this call

InCall(f) == fl[f].pc \notin { "idle", "done", "cancelled" }

\* TCMBClient.__init__
ClientInit ==
    /\ now = 1
    /\ _client = None
    /\ _last_request_time = 0
    /\ fl = [f \in Flows |-> IdleFlow]
    /\ last_get = 0
    /\ min_gap = RequestDelay

Min(a, b) == IF a < b THEN a ELSE b

RECURSIVE Pow2(_)
Pow2(i) == IF i = 0 THEN 1 ELSE 2 * Pow2(i - 1)

\* Mutant of BackoffDelay: the same delay before every retry
BackoffDelay_Constant(i) == RetryDelay

\* delays[i] of _fetch_with_retry
BackoffDelay(i) == RetryDelay * Pow2(i)

\* Exceptions
TCMBAPIError(code) == [kind |-> "TCMBAPIError", status_code |-> code]
TCMBConnectionError == [kind |-> "TCMBConnectionError"]
ValueError == [kind |-> "ValueError"]

\* TCMBClient.__aenter__
Enter ==
    /\ _client' = Some("AsyncClient")
    /\ UNCHANGED << now, _last_request_time, fl, last_get, min_gap, cacheVars, holidayVars, parseVars, toolVars >>

\* TCMBClient.__aexit__, called when no flow is inside a client call
Exit ==
    /\ \A f \in Flows : ~InCall(f)
    /\ _client' = None
    /\ UNCHANGED << now, _last_request_time, fl, last_get, min_gap, cacheVars, holidayVars, parseVars, toolVars >>

(***************************************************************************)
(* _fetch_with_retry, cut at its suspension points.  `base` is the flow's  *)
(* record as the code before the fragment left it.                         *)
(***************************************************************************)
\* Line 75 and line 105: stamp the request time and issue the GET
IssueGet(f, base) ==
    /\ _last_request_time' = now
    /\ fl' = [fl EXCEPT ![f] = [base EXCEPT !.pc = "get", !.get_at = now,
                                           !.n_gets = base.n_gets + 1,
                                           !.last_resp = Pending, !.wake = 0]]
    /\ last_get' = now
    /\ min_gap' = IF last_get = 0 THEN min_gap ELSE Min(min_gap, now - last_get)
    /\ UNCHANGED << now, _client, cacheVars, holidayVars, parseVars, toolVars >>

\* The time _throttle has to sleep (lines 70-73); 0: none
ThrottleDelay ==
    IF _last_request_time > 0 /\ RequestDelay - (now - _last_request_time) > 0
    THEN RequestDelay - (now - _last_request_time)
    ELSE 0

\* Mutant of ThrottleThenGet: the GET goes out without the throttle
ThrottleThenGet_NoThrottle(f, base) == IssueGet(f, base)

\* Lines 102-105 up to the first suspension: the throttle sleep, or the GET
ThrottleThenGet(f, base) ==
    IF ThrottleDelay > 0
    THEN /\ fl' = [fl EXCEPT ![f] = [base EXCEPT !.pc = "sleep_throttle",
                                                !.wake = now + ThrottleDelay]]
         /\ UNCHANGED << now, _client, _last_request_time, last_get, min_gap, cacheVars, holidayVars, parseVars, toolVars >>
    ELSE IssueGet(f, base)

\* _fetch_with_retry returns or raises `res`
FetchEnds(f, base, res) ==
    /\ fl' = [fl EXCEPT ![f] = [base EXCEPT !.pc = "fetched", !.fres = res,
                                           !.first_fres = IF Len(base.fetch_urls) = 1
                                                          THEN res ELSE base.first_fres]]
    /\ UNCHANGED << now, _client, _last_request_time, last_get, min_gap, cacheVars, holidayVars, parseVars, toolVars >>

\* Mutant of BeginFetch: the session is not looked at before the throttle
BeginFetch_NoSessionCheck(f, base, url) ==
    LET b == [base EXCEPT !.url = url, !.attempt = 0, !.n_gets = 0, !.n_retryable = 0,
                          !.last_resp = NoResponse, !.slept = << >>, !.fres = NoResult,
                          !.fetch_urls = Append(base.fetch_urls, url)]
    IN  IF MaxRetries = 0 THEN FetchEnds(f, b, TCMBConnectionError)
        ELSE ThrottleThenGet(f, b)

\* Lines 91-105: the call of _fetch_with_retry(url) up to its first suspension
BeginFetch(f, base, url) ==
    LET b == [base EXCEPT !.url = url, !.attempt = 0, !.n_gets = 0, !.n_retryable = 0,
                          !.last_resp = NoResponse, !.slept = << >>, !.fres = NoResult,
                          !.fetch_urls = Append(base.fetch_urls, url)]
    IN  IF IsNone(_client) THEN FetchEnds(f, b, TCMBConnectionError)
        ELSE IF MaxRetries = 0 THEN FetchEnds(f, b, TCMBConnectionError)
        ELSE ThrottleThenGet(f, b)

\* asyncio.sleep of _throttle is over: line 75, line 105
WakeThrottle(f) ==
    /\ fl[f].pc = "sleep_throttle"
    /\ now >= fl[f].wake
    /\ IssueGet(f, fl[f])

\* Mutant of HasNextAttempt: one iteration too many
HasNextAttempt_OneMore(attempt) == attempt + 1 < MaxRetries + 1

\* Lines 95-100: the for loop has an iteration after the one numbered `attempt`
HasNextAttempt(attempt) == attempt + 1 < MaxRetries

\* Line 147: a backoff sleep follows the failed iteration numbered `attempt`
SleepsAfter(attempt) == attempt < MaxRetries - 1

\* Line 107 and httpx's raise_for_status (line 110): the status classes
IsNotFound(status_code) == status_code = 404
\* Mutant of IsSuccess: no status passes raise_for_status
IsSuccess_Never(status_code) == FALSE

IsSuccess(status_code) == status_code \in 200..299

\* Mutant of IsClientError: only 400 counts as a client error
IsClientError_Only400(status_code) == status_code = 400

\* Line 133
IsClientError(status_code) == 400 <= status_code /\ status_code < 500

\* The for loop goes on after the iteration numbered base.attempt: the next
\* iteration (lines 102-105), or lines 150-153 when there is none
NextIteration(f, base) ==
    IF HasNextAttempt(base.attempt)
    THEN ThrottleThenGet(f, [base EXCEPT !.attempt = base.attempt + 1])
    ELSE FetchEnds(f, base, TCMBConnectionError)

\* A failed attempt that the except clauses swallow: lines 113-148
RetryableFailure(f, base) ==
    LET b == [base EXCEPT !.n_retryable = base.n_retryable + 1]
    IN  IF SleepsAfter(b.attempt)
        THEN /\ fl' = [fl EXCEPT ![f] = [b EXCEPT !.pc = "sleep_retry",
                                                  !.wake = now + BackoffDelay(b.attempt),
                                                  !.slept = Append(b.slept, BackoffDelay(b.attempt))]]
             /\ UNCHANGED << now, _client, _last_request_time, last_get, min_gap, cacheVars, holidayVars, parseVars, toolVars >>
        ELSE NextIteration(f, b)

\* The GET in flight ends in r: lines 105-148
HandleResponse(f, r) ==
    LET b == [fl[f] EXCEPT !.last_resp = r, !.get_at = 0]
    IN  IF r.kind = "response"
        THEN IF IsNotFound(r.status_code) THEN FetchEnds(f, b, TCMBAPIError(Some(404)))
             ELSE IF IsSuccess(r.status_code) THEN FetchEnds(f, b, [kind |-> "text", text |-> r.text])
             ELSE IF IsClientError(r.status_code)
             THEN FetchEnds(f, b, TCMBAPIError(Some(r.status_code)))
             ELSE RetryableFailure(f, b)
        ELSE IF r.kind \in { "TimeoutException", "ConnectError" } THEN RetryableFailure(f, b)
        ELSE FetchEnds(f, b, [kind |-> r.kind])

\* The server answers the GET in flight, or httpx gives it up
Respond(f) ==
    /\ fl[f].pc = "get"
    /\ \E r \in Responses(fl[f].url) :
          /\ IF r.kind = "TimeoutException"
             THEN now - fl[f].get_at >= Timeout
             ELSE now - fl[f].get_at <= Timeout
          /\ HandleResponse(f, r)

\* asyncio.sleep(delay) of line 148 is over
WakeRetry(f) ==
    /\ fl[f].pc = "sleep_retry"
    /\ now >= fl[f].wake
    /\ NextIteration(f, [fl[f] EXCEPT !.wake = 0])

\* asyncio.CancelledError, a BaseException
CancelledError == [kind |-> "CancelledError"]

\* Mutant of CatchesCancelledError: the except clauses catch it as they catch
\* a timeout
CatchesCancelledError_True == TRUE

\* Lines 113, 122 and 131: the except clauses name httpx.TimeoutException,
\* httpx.ConnectError and httpx.HTTPStatusError, and CancelledError is none of
\* them; nor is it the TCMBAPIError of line 222
CatchesCancelledError == FALSE

\* The task running the call is cancelled: CancelledError is raised at the
\* await the call is suspended in, the sleep of _throttle (line 73), the GET
\* (line 105), both inside the try, or the backoff sleep (line 148), outside it
Cancel(f) ==
    /\ fl[f].pc \in { "sleep_throttle", "get", "sleep_retry" }
    /\ LET b == [fl[f] EXCEPT !.cancelled = TRUE, !.wake = 0, !.get_at = 0,
                              !.last_resp = IF fl[f].pc = "get"
                                            THEN [kind |-> "CancelledError", status_code |-> 0,
                                                  text |-> << >>]
                                            ELSE fl[f].last_resp]
       IN  IF CatchesCancelledError /\ fl[f].pc \in { "sleep_throttle", "get" }
           THEN RetryableFailure(f, b)
           ELSE /\ fl' = [fl EXCEPT ![f] = [b EXCEPT !.pc = "cancelled",
                                                     !.fres = CancelledError,
                                                     !.first_fres = IF Len(b.fetch_urls) = 1
                                                                    THEN CancelledError
                                                                    ELSE b.first_fres,
                                                     !.result = CancelledError]]
                /\ UNCHANGED << now, _client, _last_request_time, last_get, min_gap,
                                cacheVars, holidayVars, parseVars, toolVars >>

(***************************************************************************)
(* get_today_rates and get_rates_for_date                                  *)
(***************************************************************************)
\* date.isoformat(): "YYYY-MM-DD"
isoformat(d) ==
    LET t == YMD(d)
    IN  Pad4(t.year) \o << "-" >> \o Pad2(t.month) \o << "-" >> \o Pad2(t.day)

\* The f-string of lines 195-198
HolidayWarning(original_date, target_date) ==
    << "'" >> \o isoformat(original_date) \o << "' tatil günü. '" >>
        \o isoformat(target_date) \o << "' tarihli kurlar gösteriliyor." >>

\* The call ends: it returns or raises `res`
CallEnds(f, base, res) ==
    /\ fl' = [fl EXCEPT ![f] = [base EXCEPT !.pc = "done", !.result = res]]
    /\ UNCHANGED << now, _client, _last_request_time, last_get, min_gap, cacheVars, holidayVars, parseVars, toolVars >>

\* Mutant of RecoveryDay: the day before the frame's original date
RecoveryDay_OfOriginal(original_date, target_date) ==
    get_previous_business_day(original_date)

\* Line 225: the day the recovery call is made for
RecoveryDay(original_date, target_date) == get_previous_business_day(target_date)

\* Mutant of RecoveryHandleHolidays: the recovery call handles holidays too
RecoveryHandleHolidays_True == TRUE

\* Line 226: the handle_holidays argument of the recovery call
RecoveryHandleHolidays == FALSE

\* Mutant of StartsRecovery: handle_holidays is not looked at
StartsRecovery_Any404(e, handle_holidays) ==
    /\ e.kind = "TCMBAPIError"
    /\ e.status_code = Some(404)

\* Mutant of StartsRecovery: the status code is not looked at
StartsRecovery_AnyAPIError(e, handle_holidays) ==
    /\ e.kind = "TCMBAPIError"
    /\ handle_holidays

\* Line 223: the errors that start the recovery call
StartsRecovery(e, handle_holidays) ==
    /\ e.kind = "TCMBAPIError"
    /\ e.status_code = Some(404)
    /\ handle_holidays

\* Mutant of EnterGetRatesForDate: the date is fetched as it was given, the
\* calendar is asked only for the advisory
EnterGetRatesForDate_OwnUrlFirst(f, base, target_date, handle_holidays) ==
    LET substitute == handle_holidays /\ is_holiday(target_date)
        prev       == get_previous_business_day(target_date)
    IN  IF substitute /\ IsNone(prev)
        THEN CallEnds(f, [base EXCEPT !.handle_holidays = handle_holidays,
                                      !.original_date = target_date,
                                      !.target_date = target_date], ValueError)
        ELSE LET b == [base EXCEPT !.handle_holidays = handle_holidays,
                                   !.original_date = target_date,
                                   !.target_date = target_date,
                                   !.warning = IF substitute
                                               THEN Some(HolidayWarning(target_date, The(prev)))
                                               ELSE None]
             IN  BeginFetch(f, b, get_historical_url(target_date))

\* Lines 189-209: get_rates_for_date(target_date, handle_holidays) up to the
\* first suspension of its fetch
EnterGetRatesForDate(f, base, target_date, handle_holidays) ==
    LET substitute == handle_holidays /\ is_holiday(target_date)
        prev       == get_previous_business_day(target_date)
    IN  IF substitute /\ IsNone(prev)
        THEN CallEnds(f, [base EXCEPT !.handle_holidays = handle_holidays,
                                      !.original_date = target_date,
                                      !.target_date = target_date], ValueError)
        ELSE LET t == IF substitute THEN The(prev) ELSE target_date
                 b == [base EXCEPT !.handle_holidays = handle_holidays,
                                   !.original_date = target_date,
                                   !.target_date = t,
                                   !.warning = IF substitute
                                               THEN Some(HolidayWarning(target_date, t))
                                               ELSE None]
             IN  BeginFetch(f, b, get_historical_url(t))

\* A caller calls get_rates_for_date(d, hh)
CallDate(f) ==
    /\ ~InCall(f)
    /\ now <= MaxStart + 1
    /\ \E d \in Dates, hh \in BOOLEAN :
          EnterGetRatesForDate(f, [IdleFlow EXCEPT !.op = "date", !.req_date = d,
                                                   !.req_hh = hh], d, hh)

\* A caller calls get_today_rates(): line 166
CallToday(f) ==
    /\ ~InCall(f)
    /\ now <= MaxStart + 1
    /\ BeginFetch(f, [IdleFlow EXCEPT !.op = "today"], TCMB_TODAY_URL)

\* Lines 210-220 (and 167-169): the fetched text is parsed and returned
ParseAndReturn(f, base) ==
    LET p == ParseTable[base.fres.text]
    IN  IF p.kind # "ok" THEN CallEnds(f, base, p)
        ELSE IF base.op = "date" /\ ~IsNone(base.warning)
        THEN CallEnds(f, base, [kind |-> "ok",
                                rates |-> [p.rates EXCEPT !.warning = base.warning]])
        ELSE CallEnds(f, base, p)

\* _fetch_with_retry is back in get_today_rates: lines 166-169
TodayContinues(f) ==
    /\ fl[f].pc = "fetched"
    /\ fl[f].op = "today"
    /\ IF fl[f].fres.kind = "text" THEN ParseAndReturn(f, fl[f])
       ELSE CallEnds(f, fl[f], fl[f].fres)

\* _fetch_with_retry is back in get_rates_for_date: lines 209-227
DateContinues(f) ==
    /\ fl[f].pc = "fetched"
    /\ fl[f].op = "date"
    /\ LET me == fl[f]
           e  == IF me.fres.kind = "text" THEN ParseTable[me.fres.text] ELSE me.fres
       IN  IF e.kind = "ok" THEN ParseAndReturn(f, me)
           ELSE IF StartsRecovery(e, me.handle_holidays)
           THEN LET prev_day == RecoveryDay(me.original_date, me.target_date)
                IN  IF IsNone(prev_day) THEN CallEnds(f, me, ValueError)
                    ELSE EnterGetRatesForDate(f, [me EXCEPT !.depth = me.depth + 1],
                                              The(prev_day), RecoveryHandleHolidays)
           ELSE CallEnds(f, me, e)

(***************************************************************************)
(* models/schemas.py: the JSON form of a snapshot.  A JSON document is     *)
(* `wf` (FALSE when json.loads raises JSONDecodeError) and its value, an   *)
(* object whose date and rate members are texts.                           *)
(***************************************************************************)
\* str(n) of a natural number
RECURSIVE IntDigits(_)
IntDigits(n) == IF n < 10 THEN << Digit(n) >> ELSE IntDigits(n \div 10) \o << Digit(n % 10) >>

RECURSIVE Zeros(_)
Zeros(k) == IF k <= 0 THEN << >> ELSE << "0" >> \o Zeros(k - 1)

\* str(Decimal) of a value with exponent -6..0 (plain notation)
DecimalStr(v) ==
    LET digits == IntDigits(v.coeff)
        places == 0 - v.exp
        padded == IF Len(digits) <= places
                  THEN Zeros((places + 1) - Len(digits)) \o digits ELSE digits
        whole  == Len(padded) - places
        body   == IF places = 0 THEN digits
                  ELSE SubSeq(padded, 1, whole) \o << "." >> \o SubSeq(padded, whole + 1, Len(padded))
    IN  (IF v.neg THEN << "-" >> ELSE << >>) \o body

\* Mutant of serialize_decimal: the digits without the decimal point
serialize_decimal_NoPoint(value) ==
    IF IsNone(value) THEN None ELSE Some(IntDigits(The(value).coeff))

\* CurrencyRate.serialize_decimal
serialize_decimal(value) == IF IsNone(value) THEN None ELSE Some(DecimalStr(The(value)))

DumpCurrencyRate(r) ==
    [code |-> r.code, name |-> r.name, name_tr |-> r.name_tr, unit |-> r.unit,
     forex_buying |-> serialize_decimal(r.forex_buying),
     forex_selling |-> serialize_decimal(r.forex_selling),
     banknote_buying |-> serialize_decimal(r.banknote_buying),
     banknote_selling |-> serialize_decimal(r.banknote_selling),
     cross_rate_usd |-> serialize_decimal(r.cross_rate_usd),
     cross_rate_other |-> serialize_decimal(r.cross_rate_other)]

\* ExchangeRates.model_dump_json()
model_dump_json(rates) ==
    [wf |-> TRUE,
     value |-> [date |-> isoformat(rates.date),
                bulletin_no |-> rates.bulletin_no,
                rates |-> [i \in 1..Len(rates.rates) |-> DumpCurrencyRate(rates.rates[i])] @@ << >>,
                warning |-> rates.warning]]

\* date.fromisoformat("YYYY-MM-DD"): Some(date), or None when it raises
date_fromisoformat(t) ==
    IF /\ Len(t) = 10
       /\ t[5] = "-"
       /\ t[8] = "-"
       /\ AllDigits(SubSeq(t, 1, 4) \o SubSeq(t, 6, 7) \o SubSeq(t, 9, 10))
    THEN LET y == DigitsValue(SubSeq(t, 1, 4), 0)
             m == DigitsValue(SubSeq(t, 6, 7), 0)
             d == DigitsValue(SubSeq(t, 9, 10), 0)
         IN  IF ValidYMD(y, m, d) THEN Some(date(y, m, d)) ELSE None
    ELSE None

\* pydantic's reading of an optional Decimal member: its value, or "invalid"
ValidateDecimal(member) ==
    IF IsNone(member) THEN [ok |-> TRUE, value |-> None]
    ELSE LET value == Decimal(The(member))
         IN  [ok |-> ~IsNone(value), value |-> value]

RateMembers ==
    { "forex_buying", "forex_selling", "banknote_buying", "banknote_selling",
      "cross_rate_usd", "cross_rate_other" }

ValidateCurrencyRate(r) ==
    [code |-> r.code, name |-> r.name, name_tr |-> r.name_tr, unit |-> r.unit,
     forex_buying |-> ValidateDecimal(r.forex_buying).value,
     forex_selling |-> ValidateDecimal(r.forex_selling).value,
     banknote_buying |-> ValidateDecimal(r.banknote_buying).value,
     banknote_selling |-> ValidateDecimal(r.banknote_selling).value,
     cross_rate_usd |-> ValidateDecimal(r.cross_rate_usd).value,
     cross_rate_other |-> ValidateDecimal(r.cross_rate_other).value]

\* ExchangeRates.model_validate(data): [kind |-> "ok", rates], or the
\* ValidationError it raises
model_validate(data) ==
    LET parsed == date_fromisoformat(data.date)
        rates  == [i \in 1..Len(data.rates) |-> ValidateCurrencyRate(data.rates[i])] @@ << >>
    IN  IF \/ IsNone(parsed)
           \/ \E i \in 1..Len(data.rates) : \E m \in RateMembers :
                  ~IsNone(data.rates[i][m]) /\ IsNone(rates[i][m])
        THEN [kind |-> "ValidationError"]
        ELSE [kind |-> "ok",
              rates |-> [date |-> The(parsed), bulletin_no |-> data.bulletin_no,
                         rates |-> rates, warning |-> data.warning]]

(***************************************************************************)
(* services/cache_service.py.  A stored row is [date, data, fetched_at,    *)
(* expires_at]; column date is UNIQUE.  A datetime is a count of ticks,    *)
(* TicksPerDay of them to a day, and its ISO text is the count in decimal. *)
(* Each operation is one step; `fail` names the database call of it that   *)
(* raises aiosqlite.Error ("none": no call does).                          *)
(***************************************************************************)
TicksPerDay == 1       \* ticks of the wall clock in one day
MaxWall == 1           \* the wall clock stops here
MaxTtl == 1            \* ttl_seconds arguments: None, 0 .. MaxTtl
MaxKeepDays == 1       \* days arguments of clear_old_cache: 0 .. MaxKeepDays
NWriters == 3          \* flows that call set_rates at the same time

\* The key dates of the snapshots written to the cache
CacheDates == { FirstDate, FirstDate + 1 }

\* Snapshots as the client returns them: the bulletin of each date, and the
\* bulletin of FirstDate with the advisory of a fetch for the day after it
Snapshots ==
    { ParseTable[Bulletin(d)].rates : d \in CacheDates }
        \cup { [ParseTable[Bulletin(FirstDate)].rates
                   EXCEPT !.warning = Some(HolidayWarning(FirstDate + 1, FirstDate))] }

\* model_dump_json of each snapshot and isoformat of each date, evaluated once
DumpTable == [s \in Snapshots |-> model_dump_json(s)] @@ << >>
IsoTable == [d \in CalendarFirst..CalendarLast |-> isoformat(d)] @@ << >>

TtlChoices == { None } \cup { Some(t) : t \in 0..MaxTtl }

\* datetime.isoformat() and datetime.fromisoformat()
datetime_isoformat(t) == IntDigits(t)
datetime_fromisoformat(text) == DigitsValue(text, 0)

\* date.today()
today == FirstDate + (wall \div TicksPerDay)

\* SQLite's BINARY collation on the texts of column date: "-" sorts before
\* the digits
CharOrd(c) == IF c = "-" THEN 0 ELSE DigitVal(c) + 1

RECURSIVE TextLess(_, _)
TextLess(a, b) ==
    IF b = << >> THEN FALSE
    ELSE IF a = << >> THEN TRUE
    ELSE IF Head(a) = Head(b) THEN TextLess(Tail(a), Tail(b))
    ELSE CharOrd(Head(a)) < CharOrd(Head(b))

\* ORDER BY date DESC
RECURSIVE OrderByDateDesc(_)
OrderByDateDesc(rows) ==
    IF rows = { } THEN << >>
    ELSE LET top == CHOOSE r \in rows : \A q \in rows : ~TextLess(r.date, q.date)
         IN  << top >> \o OrderByDateDesc(rows \ { top })

InitSteps == { "init_connect", "init_create_table", "init_create_index", "init_commit" }
ReadSteps == { "connect", "execute", "fetch" }
WriteSteps == { "connect", "execute", "commit" }

NoCacheOp ==
    [op |-> "none", target |-> None, ttl |-> None, fail |-> "none",
     kind |-> "none", value |-> None, changed |-> FALSE]

\* The flows that call set_rates at the same time, once each
Writers == 1 .. NWriters

\* A flow that has not called set_rates yet
NoConn ==
    [pc |-> "idle", rates |-> None, ttl |-> None, expires_at |-> None, row |-> None]

\* CacheService.__init__, on a new database file
CacheInit ==
    /\ wall = 0
    /\ _initialized = FALSE
    /\ schema = { }
    /\ exchange_rates = { }
    /\ cache_ret = NoCacheOp
    /\ written = [d \in CacheDates |-> None]
    /\ conn = [w \in Writers |-> NoConn]
    /\ reserved = 0

TCMBCacheError == [kind |-> "TCMBCacheError"]

\* _ensure_initialized: whether it raises, and the schema it leaves (each
\* CREATE statement takes effect as it is executed)
_ensure_initialized(fail) ==
    IF _initialized THEN [raised |-> FALSE, schema |-> schema]
    ELSE IF fail \in { "init_connect", "init_create_table" }
    THEN [raised |-> TRUE, schema |-> schema]
    ELSE IF fail = "init_create_index"
    THEN [raised |-> TRUE, schema |-> schema \cup { "exchange_rates" }]
    ELSE IF fail = "init_commit"
    THEN [raised |-> TRUE, schema |-> schema \cup { "exchange_rates", "idx_date" }]
    ELSE [raised |-> FALSE, schema |-> schema \cup { "exchange_rates", "idx_date" }]

\* The operation ends: `kind` is "return" or "raise"
CacheOpEnds(op, target, ttl, fail, init, kind, value, rows) ==
    /\ _initialized' = (_initialized \/ ~init.raised)
    /\ schema' = init.schema
    /\ exchange_rates' = rows
    /\ cache_ret' = [op |-> op, target |-> target, ttl |-> ttl, fail |-> fail,
                     kind |-> kind, value |-> value, changed |-> rows # exchange_rates]
    /\ UNCHANGED << wall, conn, reserved, clientVars, holidayVars, parseVars, toolVars >>

\* Payloads that are no dump of a snapshot: a text that is no JSON, and a JSON
\* object whose date member is no date
BrokenJson == [wf |-> FALSE, value |-> None]

MisfitJson ==
    [wf |-> TRUE,
     value |-> [DumpTable[CHOOSE s \in Snapshots : TRUE].value
                    EXCEPT !.date = << "n", "/", "a" >>]]

IsExpired_AtTtl(age, ttl_seconds) == ~IsNone(ttl_seconds) /\ age >= The(ttl_seconds)

\* Lines 94-97: the TTL check of get_rates
IsExpired(age, ttl_seconds) == ~IsNone(ttl_seconds) /\ age > The(ttl_seconds)

\* Mutant of ReadRow: a row whose expires_at has come is not returned
ReadRow_HonoursExpiresAt(target_date, ttl_seconds, fail) ==
    LET found == { r \in exchange_rates : r.date = IsoTable[target_date] }
        Return(v) == [kind |-> "return", value |-> v]
    IN  IF fail \in ReadSteps THEN Return(None)
        ELSE IF found = { } THEN Return(None)
        ELSE LET row == CHOOSE r \in found : TRUE
                 age == wall - datetime_fromisoformat(row.fetched_at)
             IN  IF IsExpired(age, ttl_seconds) THEN Return(None)
                 ELSE IF ~IsNone(row.expires_at)
                         /\ wall >= datetime_fromisoformat(The(row.expires_at))
                 THEN Return(None)
                 ELSE IF ~row.data.wf THEN Return(None)
                 ELSE LET rates == model_validate(row.data.value)
                      IN  IF rates.kind = "ok" THEN Return(Some(rates.rates))
                          ELSE [kind |-> "raise", value |-> rates]

\* Lines 81-114: what get_rates returns ([kind |-> "return", value]) or
\* raises once _ensure_initialized has returned
ReadRow(target_date, ttl_seconds, fail) ==
    LET found == { r \in exchange_rates : r.date = IsoTable[target_date] }
        Return(v) == [kind |-> "return", value |-> v]
    IN  IF fail \in ReadSteps THEN Return(None)
        ELSE IF found = { } THEN Return(None)
        ELSE LET row == CHOOSE r \in found : TRUE
                 age == wall - datetime_fromisoformat(row.fetched_at)
             IN  IF IsExpired(age, ttl_seconds) THEN Return(None)
                 ELSE IF ~row.data.wf THEN Return(None)
                 ELSE LET rates == model_validate(row.data.value)
                      IN  IF rates.kind = "ok" THEN Return(Some(rates.rates))
                          ELSE [kind |-> "raise", value |-> rates]

\* The failure choices of an operation: the steps of _ensure_initialized
\* are taken only on first use
FailChoices(steps) == { "none" } \cup steps \cup (IF _initialized THEN { } ELSE InitSteps)

\* Mutant of Upsert: a plain INSERT that keeps the row it finds
Upsert_KeepsOld(rows, row) == rows \cup { row }

\* Lines 135-146: INSERT OR REPLACE on the UNIQUE column date
Upsert(rows, row) == { r \in rows : r.date # row.date } \cup { row }

\* Mutant of get_rates: a row found expired is deleted
get_rates_DropsExpired ==
    /\ \E target_date \in CacheDates, ttl_seconds \in TtlChoices, fail \in FailChoices(ReadSteps) :
        LET init == _ensure_initialized(fail)
            got  == ReadRow(target_date, ttl_seconds, fail)
            kept == { r \in exchange_rates :
                        \/ r.date # IsoTable[target_date]
                        \/ ~IsExpired(wall - datetime_fromisoformat(r.fetched_at), ttl_seconds) }
        IN  IF init.raised
            THEN CacheOpEnds("get_rates", Some(target_date), ttl_seconds, fail, init,
                             "raise", TCMBCacheError, exchange_rates)
            ELSE CacheOpEnds("get_rates", Some(target_date), ttl_seconds, fail, init,
                             got.kind, got.value, IF fail = "none" THEN kept ELSE exchange_rates)
    /\ UNCHANGED written

get_rates ==
    /\ \E target_date \in CacheDates, ttl_seconds \in TtlChoices, fail \in FailChoices(ReadSteps) :
        LET init == _ensure_initialized(fail)
            got  == ReadRow(target_date, ttl_seconds, fail)
        IN  IF init.raised
            THEN CacheOpEnds("get_rates", Some(target_date), ttl_seconds, fail, init,
                             "raise", TCMBCacheError, exchange_rates)
            ELSE CacheOpEnds("get_rates", Some(target_date), ttl_seconds, fail, init,
                             got.kind, got.value, exchange_rates)
    /\ UNCHANGED written

set_rates ==
    \E rates \in Snapshots, ttl_seconds \in TtlChoices, fail \in FailChoices(WriteSteps) :
        LET data       == DumpTable[rates]
            expires_at == IF ~IsNone(ttl_seconds) /\ The(ttl_seconds) # 0
                          THEN Some(datetime_isoformat(wall + The(ttl_seconds)))
                          ELSE None
            init       == _ensure_initialized(fail)
            row        == [date |-> IsoTable[rates.date], data |-> data,
                           fetched_at |-> datetime_isoformat(wall),
                           expires_at |-> expires_at]
            replaced   == Upsert(exchange_rates, row)
        IN  IF init.raised
            THEN /\ CacheOpEnds("set_rates", Some(rates.date), ttl_seconds, fail, init,
                                "raise", TCMBCacheError, exchange_rates)
                 /\ UNCHANGED written
            ELSE IF fail \in WriteSteps
            THEN \* the connection is closed on the way out: what was executed
                 \* and not committed is rolled back
                 /\ CacheOpEnds("set_rates", Some(rates.date), ttl_seconds, fail, init,
                                "return", None, exchange_rates)
                 /\ UNCHANGED written
            ELSE /\ CacheOpEnds("set_rates", Some(rates.date), ttl_seconds, fail, init,
                                "return", None, replaced)
                 /\ written' = [written EXCEPT  ![rates.date] = Some(rates)]

is_cache_valid ==
    /\ UNCHANGED written
    /\ \E target_date \in CacheDates, t \in 0..MaxTtl, fail \in FailChoices(ReadSteps) :
        LET init == _ensure_initialized(fail)
            got  == ReadRow(target_date, Some(t), fail)
        IN  IF init.raised
            THEN CacheOpEnds("is_cache_valid", Some(target_date), Some(t), fail, init,
                             "raise", TCMBCacheError, exchange_rates)
            ELSE IF got.kind = "raise"
            THEN CacheOpEnds("is_cache_valid", Some(target_date), Some(t), fail, init,
                             "raise", got.value, exchange_rates)
            ELSE CacheOpEnds("is_cache_valid", Some(target_date), Some(t), fail, init,
                             "return", ~IsNone(got.value), exchange_rates)

\* Mutant of OlderThan: the rows of the cutoff date are deleted too
OlderThan_Inclusive(rows, cutoff_date) ==
    { r \in rows : ~TextLess(cutoff_date, r.date) }

\* Lines 187-190: the rows that DELETE ... WHERE date < ? removes
OlderThan(rows, cutoff_date) == { r \in rows : TextLess(r.date, cutoff_date) }

clear_old_cache ==
    \E days \in 0..MaxKeepDays, fail \in FailChoices(WriteSteps) :
        LET cutoff_date == IsoTable[today - days]
            init        == _ensure_initialized(fail)
            old         == OlderThan(exchange_rates, cutoff_date)
        IN  IF init.raised
            THEN /\ CacheOpEnds("clear_old_cache", Some(days), None, fail, init,
                                "raise", TCMBCacheError, exchange_rates)
                 /\ UNCHANGED written
            ELSE IF fail \in WriteSteps
            THEN /\ CacheOpEnds("clear_old_cache", Some(days), None, fail, init,
                                "return", 0, exchange_rates)
                 /\ UNCHANGED written
            ELSE /\ CacheOpEnds("clear_old_cache", Some(days), None, fail, init,
                                "return", Cardinality(old), exchange_rates \ old)
                 /\ written' = [d \in CacheDates |->
                                   IF \E r \in old : r.date = IsoTable[d]
                                   THEN None ELSE written[d]]

get_cached_dates ==
    /\ UNCHANGED written
    /\ \E fail \in FailChoices(ReadSteps) :
        LET init == _ensure_initialized(fail)
            rows == OrderByDateDesc(exchange_rates)
        IN  IF init.raised
            THEN CacheOpEnds("get_cached_dates", None, None, fail, init,
                             "raise", TCMBCacheError, exchange_rates)
            ELSE IF fail \in ReadSteps
            THEN CacheOpEnds("get_cached_dates", None, None, fail, init,
                             "return", << >>, exchange_rates)
            ELSE CacheOpEnds("get_cached_dates", None, None, fail, init, "return",
                             [i \in 1..Len(rows) |-> The(date_fromisoformat(rows[i].date))],
                             exchange_rates)

\* The wall clock moves: the latest operation's record is of an earlier time
WallTick ==
    /\ wall < MaxWall
    /\ wall' = wall + 1
    /\ cache_ret' = NoCacheOp
    /\ UNCHANGED << _initialized, schema, exchange_rates, written, conn, reserved,
                    clientVars, holidayVars, parseVars, toolVars >>

\* The payload of a row parses and validates (lines 106-107)
IsReadable(data) == data.wf /\ model_validate(data.value).kind = "ok"

\* The database file is written from outside the service: the data column of
\* a row gets a payload that set_rates did not write.  What the latest
\* operation found is no longer what the table holds, so its record is dropped.
DamageRow ==
    \E r \in exchange_rates, data \in { BrokenJson, MisfitJson } :
        /\ exchange_rates' = (exchange_rates \ { r }) \cup { [r EXCEPT !.data = data] }
        /\ cache_ret' = NoCacheOp
        /\ UNCHANGED << wall, _initialized, schema, written, conn, reserved,
                        clientVars, holidayVars, parseVars, toolVars >>

(***************************************************************************)
(* set_rates step by step, for flows that write at the same time.  Every   *)
(* call opens a connection of its own (_get_db); the flow is suspended at  *)
(* each await: after the connection is opened, after the INSERT OR REPLACE *)
(* is executed, after the commit.  SQLite lets one connection at a time    *)
(* hold the write lock: it is taken by the INSERT and released by the      *)
(* commit or by closing the connection, and the other connections see the  *)
(* row only once it is committed.                                          *)
(***************************************************************************)
\* The snapshots the flows write at the same time: those of one date
SameDateSnapshots == { s \in Snapshots : s.date = FirstDate }

\* tools/rates.py passes every set_rates the same configured ttl
WriterTtl == Some(MaxTtl)

\* The call ends: the connection is closed.  The row of a committed call is
\* kept as history, the locals of a call that gave up are dropped.
SetRatesEnds(w, pc, fail, kind, value, changed) ==
    /\ conn' = [conn EXCEPT ![w] = IF pc = "committed" THEN [@ EXCEPT !.pc = pc]
                                   ELSE [NoConn EXCEPT !.pc = pc]]
    /\ cache_ret' = [op |-> "set_rates", target |-> Some(The(conn[w].rates).date),
                     ttl |-> conn[w].ttl, fail |-> fail,
                     kind |-> kind, value |-> value, changed |-> changed]

\* Lines 128-134: the payload and expires_at are computed, the database is
\* initialized on first use and the connection is opened
set_rates_begin(w) ==
    /\ conn[w].pc = "idle"
    /\ \E rates \in SameDateSnapshots,
          fail \in { "none", "connect" } \cup (IF _initialized THEN { } ELSE InitSteps) :
          LET init       == _ensure_initialized(fail)
              expires_at == IF The(WriterTtl) # 0
                            THEN Some(datetime_isoformat(wall + The(WriterTtl)))
                            ELSE None
              called     == [conn EXCEPT ![w] =
                                [@ EXCEPT !.rates = Some(rates), !.ttl = WriterTtl,
                                          !.expires_at = expires_at]]
              ended(kind, value) ==
                  [op |-> "set_rates", target |-> Some(rates.date), ttl |-> WriterTtl,
                   fail |-> fail, kind |-> kind, value |-> value, changed |-> FALSE]
          IN  /\ _initialized' = (_initialized \/ ~init.raised)
              /\ schema' = init.schema
              /\ IF init.raised
                 THEN /\ conn' = [conn EXCEPT ![w].pc = "given_up"]
                      /\ cache_ret' = ended("raise", TCMBCacheError)
                 ELSE IF fail = "connect"
                 THEN /\ conn' = [conn EXCEPT ![w].pc = "given_up"]
                      /\ cache_ret' = ended("return", None)
                 ELSE /\ conn' = [called EXCEPT ![w].pc = "connected"]
                      /\ UNCHANGED cache_ret
    /\ UNCHANGED << wall, exchange_rates, written, reserved, clientVars, holidayVars, parseVars, toolVars >>

\* Lines 135-146: the statement is executed once the write lock is free; the
\* row is stamped with the time of the call
set_rates_execute(w) ==
    /\ conn[w].pc = "connected"
    /\ reserved = 0
    /\ reserved' = w
    /\ conn' = [conn EXCEPT ![w] =
                   [@ EXCEPT !.pc = "executed",
                             !.row = Some([date |-> IsoTable[The(conn[w].rates).date],
                                           data |-> DumpTable[The(conn[w].rates)],
                                           fetched_at |-> datetime_isoformat(wall),
                                           expires_at |-> conn[w].expires_at])]]
    /\ UNCHANGED << wall, _initialized, schema, exchange_rates, cache_ret, written,
                    clientVars, holidayVars, parseVars, toolVars >>

\* Lines 135-146, 151: the statement raises aiosqlite.Error (the lock is not
\* released in time, or the storage fails); the write is given up
set_rates_execute_fails(w) ==
    /\ conn[w].pc = "connected"
    /\ SetRatesEnds(w, "given_up", "execute", "return", None, FALSE)
    /\ UNCHANGED << wall, _initialized, schema, exchange_rates, written, reserved,
                    clientVars, holidayVars, parseVars, toolVars >>

\* Mutant of set_rates_commit: the payload is committed, the stamps of the
\* row found stay
set_rates_commit_PayloadOnly(w) ==
    /\ conn[w].pc = "executed"
    /\ LET row   == The(conn[w].row)
           found == { r \in exchange_rates : r.date = row.date }
           mixed == IF found = { } THEN row
                    ELSE [(CHOOSE r \in found : TRUE) EXCEPT !.data = row.data]
       IN  /\ exchange_rates' = Upsert(exchange_rates, mixed)
           /\ written' = [written EXCEPT ![The(conn[w].rates).date] = conn[w].rates]
           /\ SetRatesEnds(w, "committed", "none", "return", None,
                           exchange_rates' # exchange_rates)
    /\ reserved' = 0
    /\ UNCHANGED << wall, _initialized, schema, clientVars, holidayVars, parseVars, toolVars >>

\* Line 147: the commit makes the row the one row of its date, and releases
\* the lock
set_rates_commit(w) ==
    /\ conn[w].pc = "executed"
    /\ LET row == The(conn[w].row)
       IN  /\ exchange_rates' = Upsert(exchange_rates, row)
           /\ written' = [written EXCEPT ![The(conn[w].rates).date] = conn[w].rates]
           /\ SetRatesEnds(w, "committed", "none", "return", None,
                           exchange_rates' # exchange_rates)
    /\ reserved' = 0
    /\ UNCHANGED << wall, _initialized, schema, clientVars, holidayVars, parseVars, toolVars >>

\* Lines 147, 151: the commit raises; closing the connection rolls the row
\* back and releases the lock
set_rates_commit_fails(w) ==
    /\ conn[w].pc = "executed"
    /\ reserved' = 0
    /\ SetRatesEnds(w, "given_up", "commit", "return", None, FALSE)
    /\ UNCHANGED << wall, _initialized, schema, exchange_rates, written, clientVars, holidayVars, parseVars, toolVars >>

(***************************************************************************)
(* core/holidays.py: the two searches, one evaluation of the loop          *)
(* condition per step, over holiday tables of any content.                 *)
(***************************************************************************)
TableStep == 15        \* days between the ends of the contrived holiday spans

NoCal == [fn |-> "none", d |-> 0, current |-> 0, pc |-> "idle", examined |-> << >>]

\* The module as it is loaded
HolidayInit ==
    /\ fixed_holidays = FIXED_HOLIDAYS
    /\ religious_holidays = RELIGIOUS_HOLIDAYS
    /\ cal = NoCal

\* Contents of RELIGIOUS_HOLIDAYS: the one written in the module, and spans
\* of consecutive days (none when the span ends before it starts)
SpanEnds ==
    { CalendarFirst + k * TableStep : k \in 0 .. ((CalendarLast - CalendarFirst) \div TableStep) }

ReligiousTables ==
    { RELIGIOUS_HOLIDAYS } \cup { lo .. hi : lo \in SpanEnds, hi \in SpanEnds }

\* Contents of FIXED_HOLIDAYS: the one written in the module, none, and
\* every day of the months of the calendar
FixedTables ==
    { FIXED_HOLIDAYS, { },
      { << YMD(d).month, YMD(d).day >> : d \in CalendarFirst .. CalendarLast } }

\* The arguments: the days whose whole search range is in the calendar
CallDates ==
    { d \in CalendarFirst .. CalendarLast :
        d - CalendarFirst > max_lookback /\ CalendarLast - d > max_lookforward }

CalendarInit ==
    /\ ClientInit
    /\ ToolInit
    /\ CacheInit
    /\ ParserInit
    /\ fixed_holidays \in FixedTables
    /\ religious_holidays \in ReligiousTables
    /\ cal = NoCal

\* Mutant of PreviousStart: the search starts at d
PreviousStart_AtD(d) == d

\* Line 111: current = d - timedelta(days=1)
PreviousStart(d) == d - 1

\* Mutant of LookbackExceeded: the search gives up one day early
LookbackExceeded_Early(d, current) == (d - current) >= max_lookback

\* Line 116: (d - current).days > max_lookback
LookbackExceeded(d, current) == (d - current) > max_lookback

\* Line 135: current = d + timedelta(days=1)
NextStart(d) == d + 1

\* Line 140: (current - d).days > max_lookforward
LookforwardExceeded(d, current) == (current - d) > max_lookforward

\* get_previous_business_day(d) is called: lines 111-112
previous_business_day_call ==
    /\ cal.pc # "loop"
    /\ \E d \in CallDates :
          cal' = [fn |-> "previous", d |-> d, current |-> PreviousStart(d),
                  pc |-> "loop", examined |-> << >>]
    /\ UNCHANGED << fixed_holidays, religious_holidays, clientVars, cacheVars, parseVars, toolVars >>

\* Lines 114-119: the loop condition is evaluated; the body, or the return
previous_business_day_step ==
    /\ cal.pc = "loop"
    /\ cal.fn = "previous"
    /\ LET looked == [cal EXCEPT !.examined = Append(@, cal.current)]
           current == cal.current - 1
       IN  IF ~is_holiday(cal.current)
           THEN cal' = [looked EXCEPT !.pc = "returned"]
           ELSE IF LookbackExceeded(cal.d, current)
           THEN cal' = [looked EXCEPT !.pc = "raised", !.current = current]
           ELSE cal' = [looked EXCEPT !.current = current]
    /\ UNCHANGED << fixed_holidays, religious_holidays, clientVars, cacheVars, parseVars, toolVars >>

\* get_next_business_day(d) is called: lines 135-136
next_business_day_call ==
    /\ cal.pc # "loop"
    /\ \E d \in CallDates :
          cal' = [fn |-> "next", d |-> d, current |-> NextStart(d),
                  pc |-> "loop", examined |-> << >>]
    /\ UNCHANGED << fixed_holidays, religious_holidays, clientVars, cacheVars, parseVars, toolVars >>

\* Lines 138-143
next_business_day_step ==
    /\ cal.pc = "loop"
    /\ cal.fn = "next"
    /\ LET looked == [cal EXCEPT !.examined = Append(@, cal.current)]
           current == cal.current + 1
       IN  IF ~is_holiday(cal.current)
           THEN cal' = [looked EXCEPT !.pc = "returned"]
           ELSE IF LookforwardExceeded(cal.d, current)
           THEN cal' = [looked EXCEPT !.pc = "raised", !.current = current]
           ELSE cal' = [looked EXCEPT !.current = current]
    /\ UNCHANGED << fixed_holidays, religious_holidays, clientVars, cacheVars, parseVars, toolVars >>

(***************************************************************************)
(* utils/xml_parser.py, one run: parse_tcmb_xml is handed a document and   *)
(* returns or raises.  The documents are the sample bulletin with one      *)
(* part of it changed: the root's attributes, the number of <Currency>     *)
(* elements, and in an element its code, its Unit or its ForexBuying.      *)
(***************************************************************************)
MaxRecords == 2        \* <Currency> elements in one document: 0 .. MaxRecords

\* Values of the root's Tarih attribute: none, empty, dates, and texts that
\* are no DD.MM.YYYY date (31 April, month 13, letters, two parts, one part)
TarihTexts ==
    { None, Some(<< >>), Some(FormatTarih(FirstDate)),
      Some(<< "8", ".", "4", ".", "2", "0", "2", "4" >>),
      Some(<< "3", "1", ".", "0", "4", ".", "2", "0", "2", "4" >>),
      Some(<< "0", "8", ".", "1", "3", ".", "2", "0", "2", "4" >>),
      Some(<< "a", "a", ".", "0", "4", ".", "2", "0", "2", "4" >>),
      Some(<< "0", "8", ".", "0", "4" >>),
      Some(<< "2", "0", "2", "4", "-", "0", "4", "-", "0", "8" >>) }

\* Values of a CurrencyCode attribute
CodeTexts ==
    { None, Some(<< >>), Some(<< "U", "S", "D" >>), Some(<< "J", "P", "Y" >>) }

\* Texts of a <Unit> child (None: no child, or an empty one)
UnitTexts ==
    { None, Some(<< "1" >>), Some(<< "1", "0", "0" >>), Some(<< "3" >>),
      Some(<< " " >>), Some(<< "x" >>), Some(<< "0" >>), Some(<< "-", "5" >>) }

\* Texts of a <ForexBuying> child
RateTexts ==
    { None, Some(<< "2", "0", ".", "3", "4", "5", "6" >>),
      Some(<< " ", "2", ".", "5", " " >>), Some(<< "x" >>),
      Some(<< "-", "1", ".", "5" >>) }

Elements ==
    { [SampleCurrency EXCEPT !.CurrencyCode = c] : c \in CodeTexts }
        \cup { [SampleCurrency EXCEPT !.Unit = u] : u \in UnitTexts }
        \cup { [SampleCurrency EXCEPT !.ForexBuying = r] : r \in RateTexts }

ElementSeqs == UNION { [1..n -> Elements] : n \in 0..MaxRecords }

Documents ==
    { MalformedDoc }
        \cup { [Bulletin(FirstDate) EXCEPT !.currencies = cs] : cs \in ElementSeqs }
        \cup { [wf |-> TRUE, Tarih |-> t, Bulten_No |-> b, currencies |-> cs] :
                 t \in TarihTexts,
                 b \in { None, Bulletin(FirstDate).Bulten_No },
                 cs \in { << >>, << SampleCurrency >> } }

ParserRunInit ==
    /\ ClientInit
    /\ ToolInit
    /\ CacheInit
    /\ HolidayInit
    /\ xml_document \in Documents
    /\ parse_ret = NoParse
    /\ unit_ret = NoUnitRate

\* parse_tcmb_xml(xml_document) is called and ends
parse_call ==
    /\ parse_ret = NoParse
    /\ parse_ret' = parse_tcmb_xml(xml_document)
    /\ UNCHANGED << xml_document, unit_ret, clientVars, cacheVars, holidayVars, toolVars >>

(***************************************************************************)
(* models/schemas.py, CurrencyRate.get_unit_rate: rate / Decimal(unit) in  *)
(* the default decimal context.  The quotient's coefficient can have more  *)
(* digits than an integer of the model holds, so the division works on     *)
(* sequences of digits, as decimal's does on its strings; a quotient is    *)
(* [neg, digits, exp].                                                     *)
(***************************************************************************)
DecimalPrec == 28      \* decimal.getcontext().prec, which the module leaves as it is

RateTypes == { "forex_buying", "forex_selling", "banknote_buying", "banknote_selling" }

\* Lines 56-62: rate_map.get(rate_type)
get_rate(rate, rate_type) == rate[rate_type]

\* divmod(int(digits), u) by long division: the quotient's digits and the
\* remainder
RECURSIVE DivDigits(_, _, _, _)
DivDigits(digits, u, rem, quot) ==
    IF digits = << >> THEN [quot |-> quot, rem |-> rem]
    ELSE LET cur == (rem * 10) + DigitVal(Head(digits))
         IN  DivDigits(Tail(digits), u, cur % u, Append(quot, Digit(cur \div u)))

\* str(int(digits)): no leading zeros
RECURSIVE StripLeadingZeros(_)
StripLeadingZeros(digits) ==
    IF Len(digits) > 1 /\ Head(digits) = "0" THEN StripLeadingZeros(Tail(digits)) ELSE digits

\* int(digits) + 1
RECURSIVE IncDigits(_)
IncDigits(digits) ==
    IF digits = << >> THEN << "1" >>
    ELSE LET last == DigitVal(digits[Len(digits)])
             init == SubSeq(digits, 1, Len(digits) - 1)
         IN  IF last < 9 THEN Append(init, Digit(last + 1))
             ELSE Append(IncDigits(init), "0")

\* The exact quotient is brought as near to the ideal exponent as its
\* trailing zeros allow
RECURSIVE TowardsIdeal(_, _, _)
TowardsIdeal(digits, exp, ideal_exp) ==
    IF exp < ideal_exp /\ Len(digits) > 1 /\ digits[Len(digits)] = "0"
    THEN TowardsIdeal(SubSeq(digits, 1, Len(digits) - 1), exp + 1, ideal_exp)
    ELSE [digits |-> digits, exp |-> exp]

\* Mutant of Fix: the digits beyond prec are cut off (ROUND_DOWN)
Fix_RoundDown(neg, digits, exp) ==
    IF Len(digits) <= DecimalPrec THEN [neg |-> neg, digits |-> digits, exp |-> exp]
    ELSE [neg |-> neg, digits |-> SubSeq(digits, 1, DecimalPrec),
          exp |-> exp + (Len(digits) - DecimalPrec)]

\* Decimal._fix: a coefficient of more than prec digits is rounded half-even
\* to prec digits
Fix(neg, digits, exp) ==
    IF Len(digits) <= DecimalPrec THEN [neg |-> neg, digits |-> digits, exp |-> exp]
    ELSE LET kept    == SubSeq(digits, 1, DecimalPrec)
             dropped == SubSeq(digits, DecimalPrec + 1, Len(digits))
             first   == DigitVal(Head(dropped))
             more    == \E i \in 2..Len(dropped) : dropped[i] # "0"
             odd     == DigitVal(kept[DecimalPrec]) % 2 = 1
             up      == first > 5 \/ (first = 5 /\ (more \/ odd))
             rounded == IF up THEN IncDigits(kept) ELSE kept
         IN  IF Len(rounded) > DecimalPrec
             THEN [neg |-> neg, digits |-> SubSeq(rounded, 1, DecimalPrec),
                   exp |-> exp + Len(dropped) + 1]
             ELSE [neg |-> neg, digits |-> rounded, exp |-> exp + Len(dropped)]

\* Decimal.__truediv__(rate, Decimal(unit)): [kind |-> "return", value], or
\* the exception the default context's traps raise
DecimalDivide(rate, unit) ==
    LET neg     == rate.neg # (unit < 0)
        u       == IF unit < 0 THEN 0 - unit ELSE unit
        int1    == IntDigits(rate.coeff)
        shift   == (Len(IntDigits(u)) - Len(int1)) + DecimalPrec + 1
        exp     == rate.exp - shift
        dm      == DivDigits(int1 \o Zeros(shift), u, 0, << >>)
        coeff   == StripLeadingZeros(dm.quot)
        last    == DigitVal(coeff[Len(coeff)])
        inexact == IF last % 5 = 0
                   THEN [digits |-> Append(SubSeq(coeff, 1, Len(coeff) - 1), Digit(last + 1)),
                         exp |-> exp]
                   ELSE [digits |-> coeff, exp |-> exp]
        ans     == IF dm.rem # 0 THEN inexact ELSE TowardsIdeal(coeff, exp, rate.exp)
    IN  IF unit = 0
        THEN [kind |-> "raise",
              value |-> IF rate.coeff = 0 THEN "InvalidOperation" ELSE "DivisionByZero"]
        ELSE IF rate.coeff = 0
        THEN [kind |-> "return",
              value |-> Some([neg |-> neg, digits |-> << "0" >>, exp |-> rate.exp])]
        ELSE [kind |-> "return", value |-> Some(Fix(neg, ans.digits, ans.exp))]

\* Lines 76-79
get_unit_rate(self, rate_type) ==
    LET rate == get_rate(self, rate_type)
    IN  IF IsNone(rate) THEN [kind |-> "return", value |-> None]
        ELSE DecimalDivide(The(rate), self.unit)

\* get_unit_rate is called on a rate of the snapshot the parser returned
get_unit_rate_call ==
    /\ parse_ret.kind = "ok"
    /\ \E i \in 1..Len(parse_ret.rates.rates), rate_type \in RateTypes :
          LET self == parse_ret.rates.rates[i]
              ret  == get_unit_rate(self, rate_type)
          IN  unit_ret' = [kind |-> ret.kind, value |-> ret.value,
                           self |-> self, rate_type |-> rate_type]
    /\ UNCHANGED << xml_document, parse_ret, clientVars, cacheVars, holidayVars, toolVars >>

(***************************************************************************)
(* Time.  The clock moves while some flow waits for it (a sleep that is    *)
(* not over, a GET that has not timed out), and between calls up to        *)
(* MaxStart.                                                               *)
(***************************************************************************)
WaitsForTime(f) ==
    \/ fl[f].pc \in { "sleep_throttle", "sleep_retry" } /\ now < fl[f].wake
    \/ fl[f].pc = "get" /\ now - fl[f].get_at < Timeout

Tick ==
    /\ \/ \E f \in Flows : WaitsForTime(f)
       \/ (\A f \in Flows : ~InCall(f)) /\ now <= MaxStart
    /\ now' = now + 1
    /\ UNCHANGED << _client, _last_request_time, fl, last_get, min_gap, cacheVars, holidayVars, parseVars, toolVars >>

(***************************************************************************)
(* tools/rates.py: get_current_rates and get_historical_rates with the     *)
(* default settings (cache_enabled) and no currency filter, cut at their   *)
(* awaits: the cache read, the client call and the cache write.  The tool  *)
(* calls use flow 1 of the client and are made one after another; every    *)
(* step of the database succeeds (SpecCache has the steps that fail).      *)
(***************************************************************************)
\* core/config.py: the TTLs in seconds
cache_ttl_today == 3600
cache_ttl_historical == 31536000

\* A TTL in ticks of the wall clock: an age of whole ticks exceeds the TTL in
\* seconds exactly when it exceeds this number of ticks
TtlTicks(seconds) == (seconds * TicksPerDay) \div (24 * 60 * 60)

\* Lines 37, 49, 88 and 101: the ttl_seconds the tool passes to the cache
ToolTtlSeconds(op) == IF op = "current" THEN cache_ttl_today ELSE cache_ttl_historical

ToolTtl(op) == Some(TtlTicks(ToolTtlSeconds(op)))

\* services/cache_service.py, lines 130-132: expires_at of the row written
ToolExpiresAt(op) ==
    IF ToolTtlSeconds(op) # 0
    THEN Some(datetime_isoformat(wall + TtlTicks(ToolTtlSeconds(op))))
    ELSE None

\* The dates get_historical_rates is called for: Friday 5 April 2024 and the
\* Sunday after it
ToolDates == { FirstDate - 3, FirstDate - 1 }

\* The snapshots a tool's client call can return: the bulletin of a date, and
\* the bulletin of a date with the advisory of a request for a later date
ToolSnapshots ==
    { ParseTable[Bulletin(d)].rates : d \in FetchDates }
        \cup UNION { { [ParseTable[Bulletin(t)].rates
                            EXCEPT !.warning = Some(HolidayWarning(o, t))] :
                        t \in { x \in FetchDates : x < o } } : o \in ToolDates }

ToolDumpTable == [s \in ToolSnapshots |-> model_dump_json(s)] @@ << >>

\* Mutant of Hit: what the cache returns is not looked at
Hit_Never(cached) == FALSE

\* Lines 38 and 90: `if cached:`
Hit(cached) == ~IsNone(cached)

\* Lines 29-42 and 77-94: the services are obtained (the client is entered
\* on first use) and the cache is read for date d; it returned `value`, and a
\* snapshot it returns is returned
ToolCallEnds(op, d, ttl, value) ==
    /\ _client' = Some("AsyncClient")
    /\ fl' = [fl EXCEPT ![1] = IdleFlow]
    /\ _initialized' = TRUE
    /\ schema' = _ensure_initialized("none").schema
    /\ cache_ret' = [op |-> "get_rates", target |-> Some(d), ttl |-> ttl,
                     fail |-> "none", kind |-> "return", value |-> value,
                     changed |-> FALSE]
    /\ tool' = [IdleTool EXCEPT !.pc = IF Hit(value) THEN "done" ELSE "miss",
                                !.op = op,
                                !.date = d,
                                !.hit = Hit(value),
                                !.ret = IF Hit(value)
                                        THEN [kind |-> "ok", rates |-> The(value)]
                                        ELSE NoResult,
                                !.rows0 = exchange_rates,
                                !.served = tool.served]
    /\ UNCHANGED << now, _last_request_time, last_get, min_gap, wall,
                    exchange_rates, written, conn, reserved, holidayVars, parseVars,
                    hist >>

ToolCall(op, d) ==
    /\ tool.pc \in { "idle", "done" }
    /\ ~InCall(1)
    /\ now <= MaxStart + 1
    /\ ToolCallEnds(op, d, ToolTtl(op), ReadRow(d, ToolTtl(op), "none").value)

\* get_current_rates() is called
get_current_rates ==
    ToolCall("current", today)

\* get_historical_rates(date_str) is called; d is parse_date(date_str)
get_historical_rates ==
    \E d \in ToolDates : ToolCall("historical", d)

\* Lines 45 and 97: the cache had no fresh snapshot, the client is called
ToolFetches ==
    /\ tool.pc = "miss"
    /\ fl[1].pc = "idle"
    /\ IF tool.op = "current"
       THEN BeginFetch(1, [IdleFlow EXCEPT !.op = "today"], TCMB_TODAY_URL)
       ELSE EnterGetRatesForDate(1, [IdleFlow EXCEPT !.op = "date",
                                                     !.req_date = tool.date,
                                                     !.req_hh = TRUE],
                                 tool.date, TRUE)

\* Lines 45-55 and 97-107: the client call has ended.  What it raised leaves
\* the tool; the snapshot it returned is written to the cache and returned
ToolReturns ==
    /\ tool.pc = "miss"
    /\ fl[1].pc = "done"
    /\ LET res == fl[1].result
       IN  IF res.kind # "ok"
           THEN /\ tool' = [tool EXCEPT !.pc = "done", !.ret = res]
                /\ UNCHANGED << clientVars, cacheVars, holidayVars, parseVars, hist >>
           ELSE LET rates      == res.rates
                    ttl        == ToolTtl(tool.op)
                    init       == _ensure_initialized("none")
                    row        == [date |-> IsoTable[rates.date],
                                   data |-> ToolDumpTable[rates],
                                   fetched_at |-> datetime_isoformat(wall),
                                   expires_at |-> ToolExpiresAt(tool.op)]
                    rows       == Upsert(exchange_rates, row)
                IN  /\ _initialized' = TRUE
                    /\ schema' = init.schema
                    /\ exchange_rates' = rows
                    /\ cache_ret' = [op |-> "set_rates", target |-> Some(rates.date),
                                     ttl |-> ttl, fail |-> "none", kind |-> "return",
                                     value |-> None, changed |-> rows # exchange_rates]
                    /\ written' = IF rates.date \in CacheDates
                                  THEN [written EXCEPT ![rates.date] = Some(rates)]
                                  ELSE written
                    /\ tool' = [tool EXCEPT
                                  !.pc = "done", !.stored = TRUE, !.ret = res,
                                  !.served = tool.served
                                               \cup { << tool.op, tool.date, wall >> }]
                    /\ UNCHANGED << clientVars, wall, conn, reserved, holidayVars,
                                    parseVars, hist >>

(***************************************************************************)
(* tools/history.py: get_rate_history with the default settings and the    *)
(* default rate_type, cut at its awaits.  The statistics over the data     *)
(* points are left out of what it returns.                                 *)
(***************************************************************************)
TCMB_MIN_DATE == date(1996, 1, 2)
TCMBDateRangeError == [kind |-> "TCMBDateRangeError"]
TCMBCurrencyNotFoundError(currency) ==
    [kind |-> "TCMBCurrencyNotFoundError", currency |-> currency]

\* The dates of the ranges asked for: Friday 5 April 2024 to Monday 8 April
HistoryDates == (FirstDate - 3) .. FirstDate

\* The currency codes asked for, upper-cased: the one of the bulletins and one
\* they do not have
HistoryCodes == { << "J", "P", "Y" >>, << "U", "S", "D" >> }

\* utils/date_utils.py, lines 86-106: validate_date_range raises
RangeIsInvalid(start_date, end_date, max_days) ==
    \/ start_date < TCMB_MIN_DATE
    \/ end_date > today
    \/ start_date > end_date
    \/ end_date - start_date > max_days

\* models/schemas.py, lines 93-104: ExchangeRates.get_rate(code)
ExchangeRates_get_rate(self, code) ==
    LET found == { i \in 1..Len(self.rates) : self.rates[i].code = code }
    IN  IF found = { } THEN None
        ELSE Some(self.rates[CHOOSE i \in found : \A j \in found : i <= j])

\* Lines 103-109: the data point of the day
RateDataPoint(d, currency_rate) ==
    [date |-> d,
     buying |-> get_unit_rate(currency_rate, "forex_buying").value,
     selling |-> get_unit_rate(currency_rate, "forex_selling").value]

\* Lines 42-64: the services are obtained, the range is validated and the
\* loop is about to start
get_rate_history ==
    /\ hist.pc \in { "idle", "done" }
    /\ ~InCall(1)
    /\ now <= MaxStart + 1
    /\ \E currency_code \in HistoryCodes, start \in HistoryDates, end \in HistoryDates :
          LET base == [IdleHistory EXCEPT !.currency_code = currency_code,
                                          !.start = start, !.end = end]
          IN  hist' = IF RangeIsInvalid(start, end, 365)
                      THEN [base EXCEPT !.pc = "done", !.ret = TCMBDateRangeError]
                      ELSE [base EXCEPT !.pc = "loop", !.current = start]
    /\ _client' = Some("AsyncClient")
    /\ fl' = [fl EXCEPT ![1] = IdleFlow]
    /\ UNCHANGED << now, _last_request_time, last_get, min_gap, cacheVars,
                    holidayVars, parseVars, tool >>

\* Lines 92-111: the rate of the currency is taken from the snapshot of the
\* day; `h` is the record as the code before left it
ExtractRate(h, rates) ==
    LET currency_rate == ExchangeRates_get_rate(rates, h.currency_code)
        seen == [h EXCEPT !.obtained = h.obtained
                                         \cup { << h.current, ~IsNone(currency_rate) >> }]
    IN  IF IsNone(currency_rate)
        THEN IF h.data_points # << >>
             THEN [seen EXCEPT !.pc = "loop", !.current = h.current + 1]
             ELSE [seen EXCEPT !.pc = "done",
                               !.ret = TCMBCurrencyNotFoundError(h.currency_code)]
        ELSE [seen EXCEPT !.pc = "loop",
                          !.current = h.current + 1,
                          !.data_points = Append(h.data_points,
                                                 RateDataPoint(h.current,
                                                               The(currency_rate)))]

\* Lines 66-78: an iteration of the loop up to the cache's answer `cached`
HistoryDayEnds(cached) ==
    /\ hist' = IF is_holiday(hist.current)
               THEN [hist EXCEPT !.current = hist.current + 1]
               ELSE IF IsNone(cached) THEN [hist EXCEPT !.pc = "miss"]
               ELSE ExtractRate(hist, The(cached))
    /\ IF is_holiday(hist.current)
       THEN UNCHANGED << _initialized, schema, cache_ret >>
       ELSE /\ _initialized' = TRUE
            /\ schema' = _ensure_initialized("none").schema
            /\ cache_ret' = [op |-> "get_rates", target |-> Some(hist.current),
                             ttl |-> ToolTtl("historical"), fail |-> "none",
                             kind |-> "return", value |-> cached, changed |-> FALSE]
    /\ UNCHANGED << clientVars, wall, exchange_rates, written, conn, reserved,
                    holidayVars, parseVars, tool >>

HistoryDay ==
    /\ hist.pc = "loop"
    /\ hist.current <= hist.end
    /\ HistoryDayEnds(ReadRow(hist.current, ToolTtl("historical"), "none").value)

\* Line 83: the cache had no fresh snapshot of the day, the client is called
HistoryFetches ==
    /\ hist.pc = "miss"
    /\ fl[1].pc = "idle"
    /\ EnterGetRatesForDate(1, [IdleFlow EXCEPT !.op = "date",
                                                !.req_date = hist.current,
                                                !.req_hh = FALSE],
                            hist.current, FALSE)

\* Lines 83-111: the client call has ended.  What it raised is logged and
\* counted; the snapshot it returned is written to the cache and used
HistoryFetched ==
    /\ hist.pc = "miss"
    /\ fl[1].pc = "done"
    /\ fl' = [fl EXCEPT ![1] = IdleFlow]
    /\ LET res == fl[1].result
       IN  IF res.kind # "ok"
           THEN /\ hist' = [hist EXCEPT !.pc = "loop",
                                        !.missing_days = hist.missing_days + 1,
                                        !.current = hist.current + 1]
                /\ UNCHANGED cacheVars
           ELSE LET rates == res.rates
                    ttl   == ToolTtl("historical")
                    row   == [date |-> IsoTable[rates.date],
                              data |-> ToolDumpTable[rates],
                              fetched_at |-> datetime_isoformat(wall),
                              expires_at |-> ToolExpiresAt("historical")]
                    rows  == Upsert(exchange_rates, row)
                IN  /\ hist' = ExtractRate(hist, rates)
                    /\ _initialized' = TRUE
                    /\ schema' = _ensure_initialized("none").schema
                    /\ exchange_rates' = rows
                    /\ cache_ret' = [op |-> "set_rates", target |-> Some(rates.date),
                                     ttl |-> ttl, fail |-> "none", kind |-> "return",
                                     value |-> None, changed |-> rows # exchange_rates]
                    /\ written' = IF rates.date \in CacheDates
                                  THEN [written EXCEPT ![rates.date] = Some(rates)]
                                  ELSE written
                    /\ UNCHANGED << wall, conn, reserved >>
    /\ UNCHANGED << now, _client, _last_request_time, last_get, min_gap,
                    holidayVars, parseVars, tool >>

\* Lines 113-163: the loop is over
HistoryEnds ==
    /\ hist.pc = "loop"
    /\ hist.current > hist.end
    /\ hist' = [hist EXCEPT
                  !.pc = "done",
                  !.ret = IF hist.data_points = << >>
                          THEN TCMBCurrencyNotFoundError(hist.currency_code)
                          ELSE [kind |-> "ok",
                                data_points |-> hist.data_points,
                                missing_days |-> hist.missing_days]]
    /\ UNCHANGED << clientVars, cacheVars, holidayVars, parseVars, tool >>

(***************************************************************************)
(* Specifications.  Spec: one flow uses the client, call after call.       *)
(* SpecConc: all flows share it, as the tool calls share the singleton of  *)
(* core/container.py; there every flow calls get_today_rates.              *)
(***************************************************************************)
FlowStep(f) ==
    \/ CallToday(f)
    \/ CallDate(f)
    \/ WakeThrottle(f)
    \/ Respond(f)
    \/ WakeRetry(f)
    \/ TodayContinues(f)
    \/ DateContinues(f)

Next ==
    \/ Enter
    \/ Exit
    \/ Tick
    \/ FlowStep(1)

Init == ClientInit /\ CacheInit /\ HolidayInit /\ ParserInit /\ ToolInit

Spec == Init /\ [][Next]_vars

\* SpecCancel: as Spec, with a caller that may cancel the call it waits for
NextCancel ==
    \/ Next
    \/ Cancel(1)

SpecCancel == Init /\ [][NextCancel]_vars

TodayStep(f) ==
    \/ CallToday(f)
    \/ WakeThrottle(f)
    \/ Respond(f)
    \/ WakeRetry(f)
    \/ TodayContinues(f)

NextConc ==
    \/ Enter
    \/ Tick
    \/ \E f \in Flows : TodayStep(f)

SpecConc == Init /\ [][NextConc]_vars

NextCache ==
    \/ WallTick
    \/ get_rates
    \/ set_rates
    \/ is_cache_valid
    \/ clear_old_cache
    \/ get_cached_dates

SpecCache == Init /\ [][NextCache]_vars

\* SpecWriters: the flows write snapshots for one date at the same time
NextWriters ==
    \/ WallTick
    \/ \E w \in Writers :
          \/ set_rates_begin(w)
          \/ set_rates_execute(w)
          \/ set_rates_execute_fails(w)
          \/ set_rates_commit(w)
          \/ set_rates_commit_fails(w)

SpecWriters == Init /\ [][NextWriters]_vars

\* SpecParser: one document is parsed and its rates are asked for unit rates
NextParser ==
    \/ parse_call
    \/ get_unit_rate_call

SpecParser == ParserRunInit /\ [][NextParser]_vars

\* SpecCalendar: the two searches over holiday tables of any content
NextCalendar ==
    \/ previous_business_day_call
    \/ previous_business_day_step
    \/ next_business_day_call
    \/ next_business_day_step

SpecCalendar == CalendarInit /\ [][NextCalendar]_vars

\* SpecTools: the two rate tools are called one after another
NextTools ==
    \/ WallTick
    \/ Tick
    \/ get_current_rates
    \/ get_historical_rates
    \/ ToolFetches
    \/ WakeThrottle(1)
    \/ Respond(1)
    \/ WakeRetry(1)
    \/ TodayContinues(1)
    \/ DateContinues(1)
    \/ ToolReturns

SpecTools == Init /\ [][NextTools]_vars

\* SpecHistory: get_rate_history is called, call after call
NextHistory ==
    \/ WallTick
    \/ Tick
    \/ get_rate_history
    \/ HistoryDay
    \/ HistoryFetches
    \/ WakeThrottle(1)
    \/ Respond(1)
    \/ WakeRetry(1)
    \/ DateContinues(1)
    \/ HistoryFetched
    \/ HistoryEnds

SpecHistory == Init /\ [][NextHistory]_vars

\* The cache over a database file that is also written from outside
NextDamaged ==
    \/ set_rates
    \/ DamageRow
    \/ get_rates
    \/ is_cache_valid

SpecDamaged == Init /\ [][NextDamaged]_vars

(***************************************************************************)
(* C1.  Rate limiting: any two consecutive GETs of the one client are      *)
(* issued at least request_delay apart, however the flows that share the   *)
(* client interleave.                                                      *)
(***************************************************************************)
C1_RequestSpacing == min_gap >= RequestDelay

(***************************************************************************)
(* Helpers of the properties below                                         *)
(***************************************************************************)
\* Text `part` occurs in text `w` starting at position i
OccursAt(w, part, i) == i + Len(part) - 1 <= Len(w) /\ SubSeq(w, i, i + Len(part) - 1) = part

\* Text w names a and then, after it, b
NamesInOrder(w, a, b) ==
    \E i \in 1..Len(w) : \E j \in 1..Len(w) :
        /\ OccursAt(w, a, i)
        /\ OccursAt(w, b, j)
        /\ i + Len(a) <= j

\* The date whose URL the first fetch of get_rates_for_date(d, hh) asks for
FirstFetchDate(d, hh) ==
    IF hh /\ is_holiday(d) THEN The(get_previous_business_day(d)) ELSE d

\* A failure the claims call retryable: a timeout, a connection failure, a 5xx
IsRetryableResp(r) ==
    \/ r.kind \in { "TimeoutException", "ConnectError" }
    \/ r.kind = "response" /\ r.status_code \in 500..599

Is4xxResp(r) == r.kind = "response" /\ r.status_code \in 400..499

Is2xxResp(r) == r.kind = "response" /\ r.status_code \in 200..299

(***************************************************************************)
(* C2.  get_rates_for(date, handle_holidays=True) called with a            *)
(* non-trading date and returning a snapshot returns one whose advisory is *)
(* non-empty and names the requested date and then the substituted date    *)
(* (previous_trading_day of the requested date).                           *)
(***************************************************************************)
C2_AdvisoryOnSubstitution ==
    \A f \in Flows :
        (/\ fl[f].pc = "done"
         /\ fl[f].op = "date"
         /\ fl[f].req_hh
         /\ is_holiday(fl[f].req_date)
         /\ fl[f].result.kind = "ok")
        => /\ ~IsNone(fl[f].result.rates.warning)
           /\ The(fl[f].result.rates.warning) # << >>
           /\ NamesInOrder(The(fl[f].result.rates.warning),
                           isoformat(fl[f].req_date),
                           isoformat(The(get_previous_business_day(fl[f].req_date))))

(***************************************************************************)
(* C3 as stated.  After a 404 of the fetch in get_rates_for(date,          *)
(* handle_holidays=True) the recovery fetch is made for                    *)
(* previous_trading_day(the originally requested date), with               *)
(* handle_holidays=False.                                                  *)
(***************************************************************************)
C3_RecoveryFromRequestedDate ==
    \A f \in Flows :
        (fl[f].op = "date" /\ fl[f].depth >= 1)
        => /\ ~fl[f].handle_holidays
           /\ fl[f].target_date = The(get_previous_business_day(fl[f].req_date))
           /\ fl[f].fetch_urls[2] =
                  get_historical_url(The(get_previous_business_day(fl[f].req_date)))

(***************************************************************************)
(* C3 amended.  After a 404 of the fetch in get_rates_for(date,            *)
(* handle_holidays=True) the recovery fetch is made for                    *)
(* previous_trading_day of the date whose URL was just fetched (the        *)
(* requested date when it is a trading day, else the trading day           *)
(* substituted for it), with handle_holidays=False.                        *)
(***************************************************************************)
C3_RecoveryFromFetchedDate ==
    \A f \in Flows :
        (fl[f].op = "date" /\ fl[f].depth >= 1)
        => LET fetched == FirstFetchDate(fl[f].req_date, fl[f].req_hh)
               prev_day == The(get_previous_business_day(fetched))
           IN  /\ fl[f].req_hh
               /\ fl[f].first_fres = TCMBAPIError(Some(404))
               /\ fl[f].fetch_urls[1] = get_historical_url(fetched)
               /\ ~fl[f].handle_holidays
               /\ fl[f].original_date = prev_day
               /\ fl[f].target_date = prev_day
               /\ Len(fl[f].fetch_urls) = 2
               /\ fl[f].fetch_urls[2] = get_historical_url(prev_day)

\* The recovery GET is in flight for a request of a non-trading date
C3_Witness ==
    \E f \in Flows :
        /\ fl[f].op = "date"
        /\ fl[f].depth = 1
        /\ is_holiday(fl[f].req_date)
        /\ fl[f].pc = "get"

(***************************************************************************)
(* C4.  No cache operation raises to its caller on a storage failure, at   *)
(* whichever step the failure occurs, table creation on first use          *)
(* included: the operation returns and leaves the rows as they were;       *)
(* get_rates returns None, set_rates returns None, clear_old_cache returns *)
(* 0 and get_cached_dates returns the empty list.                          *)
(***************************************************************************)
C4_StorageFailureNeverRaises ==
    cache_ret.fail # "none"
    => /\ cache_ret.kind = "return"
       /\ ~cache_ret.changed
       /\ cache_ret.op \in { "get_rates", "set_rates" } => cache_ret.value = None
       /\ cache_ret.op = "clear_old_cache" => cache_ret.value = 0
       /\ cache_ret.op = "get_cached_dates" => cache_ret.value = << >>

(***************************************************************************)
(* C5.  A _fetch_with_retry call on an open session whose attempts all end *)
(* in a retryable failure issues exactly max_retries GETs and raises       *)
(* TCMBConnectionError; no call issues more than max_retries GETs.         *)
(***************************************************************************)
C5_ExhaustedRetries ==
    \A f \in Flows :
        /\ fl[f].n_gets <= MaxRetries
        /\ (fl[f].pc = "fetched" /\ IsRetryableResp(fl[f].last_resp))
           => /\ fl[f].n_gets = MaxRetries
              /\ fl[f].n_retryable = MaxRetries
              /\ fl[f].fres = TCMBConnectionError

\* Every attempt got a 500 and the call has raised
C5_Witness ==
    \E f \in Flows :
        /\ fl[f].pc = "fetched"
        /\ fl[f].last_resp.kind = "response"
        /\ fl[f].last_resp.status_code = 500
        /\ fl[f].n_gets = MaxRetries
        /\ fl[f].fres = TCMBConnectionError

(***************************************************************************)
(* C6.  A 4xx response (404 or another) on any attempt ends                *)
(* _fetch_with_retry at once with a TCMBAPIError carrying that status:     *)
(* the call is over, and it slept only after the attempts before this one. *)
(***************************************************************************)
C6_ClientErrorEndsFetch ==
    \A f \in Flows :
        Is4xxResp(fl[f].last_resp)
        => /\ fl[f].pc \in { "fetched", "done" }
           /\ fl[f].fres = TCMBAPIError(Some(fl[f].last_resp.status_code))
           /\ Len(fl[f].slept) = fl[f].n_gets - 1
           /\ fl[f].n_retryable = fl[f].n_gets - 1

\* A 403 on the second attempt
C6_Witness ==
    \E f \in Flows :
        /\ fl[f].pc = "fetched"
        /\ fl[f].last_resp.kind = "response"
        /\ fl[f].last_resp.status_code = 403
        /\ fl[f].n_gets = 2
        /\ fl[f].fres = TCMBAPIError(Some(403))

(***************************************************************************)
(* C7.  When attempt k of _fetch_with_retry gets a success status after    *)
(* k-1 retryable failures, the call returns the body of attempt k after    *)
(* exactly k GETs and is over.                                             *)
(***************************************************************************)
C7_SuccessAfterRetries ==
    \A f \in Flows :
        Is2xxResp(fl[f].last_resp)
        => /\ fl[f].pc \in { "fetched", "done" }
           /\ fl[f].fres = [kind |-> "text", text |-> fl[f].last_resp.text]
           /\ fl[f].n_gets = fl[f].n_retryable + 1
           /\ fl[f].n_gets \in 1..MaxRetries

\* A retryable failure, then a 200 on the second attempt
C7_Witness ==
    \E f \in Flows :
        /\ fl[f].pc = "fetched"
        /\ Is2xxResp(fl[f].last_resp)
        /\ fl[f].n_retryable = 1
        /\ fl[f].n_gets = 2
        /\ fl[f].fres.kind = "text"

(***************************************************************************)
(* C8.  get_rates_for(date, handle_holidays=True) makes at most one        *)
(* recovery hop: at most two _fetch_with_retry calls, the second with      *)
(* handle_holidays=False; whatever the recovery fetch raises is what the   *)
(* caller gets; and every call ends: while it is in progress a step of it  *)
(* or of the clock is possible, and each such step lowers a measure that   *)
(* cannot fall below zero.                                                 *)
(***************************************************************************)
C8_OneHop ==
    \A f \in Flows :
        /\ fl[f].depth <= 1
        /\ Len(fl[f].fetch_urls) <= 2
        /\ Len(fl[f].fetch_urls) = 2 => (fl[f].depth = 1 /\ ~fl[f].handle_holidays)
        /\ (fl[f].pc = "done" /\ fl[f].depth = 1 /\ fl[f].fres.kind # "text")
           => fl[f].result = fl[f].fres

\* The longest wait of a call: a throttle sleep, a GET, a backoff sleep
MaxWait == RequestDelay + Timeout + BackoffDelay(MaxRetries)

\* What is left of the wait a flow is in
WaitLeft(me) ==
    IF me.pc = "get" THEN Timeout - (now - me.get_at)
    ELSE IF me.wake > now THEN me.wake - now ELSE 0

\* A measure of what a call still has ahead of it: the fetches it may still
\* start, the attempts left to the fetch in progress, the suspension the
\* attempt is at, and the time left of that suspension
Rank(me) ==
    LET phase   == CASE me.pc = "sleep_throttle" -> 2
                     [] me.pc = "get" -> 1
                     [] OTHER -> 0
        attempts == ((MaxRetries - me.attempt) * 3 + phase) * (MaxWait + 1) + WaitLeft(me)
        perFetch == (MaxRetries + 1) * 3 * (MaxWait + 1)
    IN  (2 - Len(me.fetch_urls)) * (perFetch + 1)
            + (IF me.pc = "fetched" THEN 0 ELSE 1 + attempts)

C8_AtMostOneRecoveryHop ==
    /\ []C8_OneHop
    /\ [](InCall(1) => (Rank(fl[1]) >= 0 /\ ENABLED (Tick \/ FlowStep(1))))
    /\ [][(InCall(1) /\ (fl' # fl \/ now' # now))
            => (InCall(1)' => Rank(fl[1])' < Rank(fl[1]))]_vars

\* The recovery fetch got a 404 too, and the caller got it
C8_Witness ==
    \E f \in Flows :
        /\ fl[f].pc = "done"
        /\ fl[f].depth = 1
        /\ Len(fl[f].fetch_urls) = 2
        /\ fl[f].last_resp.status_code = 404
        /\ fl[f].result = TCMBAPIError(Some(404))

(***************************************************************************)
(* C9.  get_rates_for(date, handle_holidays=False) asks for the URL of the *)
(* given date only, non-trading or not, and a 404 for it reaches the       *)
(* caller as a TCMBAPIError with status 404, with no second fetch.         *)
(***************************************************************************)
C9_NoHolidayHandling ==
    \A f \in Flows :
        (fl[f].op = "date" /\ ~fl[f].req_hh)
        => /\ fl[f].fetch_urls = << get_historical_url(fl[f].req_date) >>
           /\ fl[f].url = get_historical_url(fl[f].req_date)
           /\ fl[f].depth = 0
           /\ IsNone(fl[f].warning)
           /\ (fl[f].pc = "done" /\ fl[f].fres = TCMBAPIError(Some(404)))
              => fl[f].result = TCMBAPIError(Some(404))

\* A non-trading date was asked for as it is, and its 404 reached the caller
C9_Witness ==
    \E f \in Flows :
        /\ fl[f].op = "date"
        /\ ~fl[f].req_hh
        /\ is_holiday(fl[f].req_date)
        /\ fl[f].pc = "done"
        /\ fl[f].last_resp.status_code = 404
        /\ fl[f].result = TCMBAPIError(Some(404))

(***************************************************************************)
(* C10.  In get_rates_for(date, handle_holidays=True) only a 404           *)
(* TCMBAPIError starts the recovery hop: when the first fetch ends in      *)
(* anything else (a text that does not parse, TCMBConnectionError, another *)
(* TCMBAPIError), there is no second fetch and the caller gets that error. *)
(***************************************************************************)
C10_Only404Recovers ==
    \A f \in Flows :
        (fl[f].op = "date" /\ fl[f].req_hh)
        => /\ fl[f].depth >= 1 => fl[f].first_fres = TCMBAPIError(Some(404))
           /\ (/\ fl[f].pc = "done"
               /\ Len(fl[f].fetch_urls) >= 1
               /\ fl[f].first_fres # TCMBAPIError(Some(404)))
              => /\ Len(fl[f].fetch_urls) = 1
                 /\ fl[f].n_gets <= MaxRetries
                 /\ IF fl[f].first_fres.kind = "text"
                    THEN LET p == parse_tcmb_xml(fl[f].first_fres.text)
                         IN  p.kind # "ok" => fl[f].result = p
                    ELSE fl[f].result = fl[f].first_fres

\* A bulletin without a date made the parser raise, and the caller got that
C10_Witness ==
    \E f \in Flows :
        /\ fl[f].op = "date"
        /\ fl[f].req_hh
        /\ fl[f].pc = "done"
        /\ fl[f].first_fres.kind = "text"
        /\ fl[f].first_fres.text = UndatedDoc
        /\ fl[f].result = TCMBAPIError(None)
        /\ Len(fl[f].fetch_urls) = 1

(***************************************************************************)
(* C11.  A get_rates that meets no storage failure and finds a row whose   *)
(* payload cannot be deserialized into a snapshot (a text that is no JSON, *)
(* or JSON that does not fit the snapshot schema) returns None and does    *)
(* not raise.                                                              *)
(***************************************************************************)
C11_UnreadablePayloadIsAbsent ==
    \A target_date \in CacheDates :
        (/\ cache_ret.op = "get_rates"
         /\ cache_ret.fail = "none"
         /\ cache_ret.target = Some(target_date)
         /\ \E r \in exchange_rates :
               r.date = IsoTable[target_date] /\ ~IsReadable(r.data))
        => (cache_ret.kind = "return" /\ cache_ret.value = None)

(***************************************************************************)
(* C12.  A get_rates(date, ttl_seconds) that meets no storage failure and  *)
(* finds a row for the date returns its snapshot exactly when              *)
(* now - fetched_at <= ttl_seconds, and None when the age is greater; with *)
(* no ttl it returns the snapshot whatever its age.                        *)
(***************************************************************************)
C12_TtlDecidesRead ==
    \A target_date \in CacheDates :
        (/\ cache_ret.op = "get_rates"
         /\ cache_ret.fail = "none"
         /\ cache_ret.target = Some(target_date)
         /\ \E r \in exchange_rates : r.date = IsoTable[target_date])
        => LET row == CHOOSE r \in exchange_rates : r.date = IsoTable[target_date]
               age == wall - datetime_fromisoformat(row.fetched_at)
           IN  /\ cache_ret.kind = "return"
               /\ ~IsNone(written[target_date])
               /\ cache_ret.value = IF IsNone(cache_ret.ttl) \/ age <= The(cache_ret.ttl)
                                    THEN written[target_date] ELSE None

\* A row exactly as old as the ttl was read and returned
C12_Witness ==
    \E r \in exchange_rates :
        /\ cache_ret.op = "get_rates"
        /\ cache_ret.fail = "none"
        /\ ~IsNone(cache_ret.target)
        /\ r.date = IsoTable[The(cache_ret.target)]
        /\ cache_ret.ttl = Some(1)
        /\ wall - datetime_fromisoformat(r.fetched_at) = 1
        /\ cache_ret.kind = "return"
        /\ ~IsNone(cache_ret.value)


(***************************************************************************)
(* C13.  After any sequence of set_rates and clear_old_cache the table     *)
(* holds at most one row per date, and a get_rates(date) with no ttl that  *)
(* meets no storage failure returns the snapshot of the latest write for   *)
(* the date that has not been purged since, and None when there is none.   *)
(***************************************************************************)
C13_OneRowPerDateLatestWins ==
    /\ \A r1 \in exchange_rates, r2 \in exchange_rates : r1.date = r2.date => r1 = r2
    /\ \A target_date \in CacheDates :
           (/\ cache_ret.op = "get_rates"
            /\ cache_ret.fail = "none"
            /\ cache_ret.ttl = None
            /\ cache_ret.target = Some(target_date))
           => /\ cache_ret.kind = "return"
              /\ cache_ret.value = written[target_date]

\* A row written after the clock had moved, carrying an advisory, was read
\* back with no ttl
C13_Witness ==
    \E target_date \in CacheDates, r \in exchange_rates :
        /\ cache_ret.op = "get_rates"
        /\ cache_ret.fail = "none"
        /\ cache_ret.ttl = None
        /\ cache_ret.target = Some(target_date)
        /\ r.date = IsoTable[target_date]
        /\ datetime_fromisoformat(r.fetched_at) = 1
        /\ ~IsNone(cache_ret.value)
        /\ ~IsNone(The(cache_ret.value).warning)


(***************************************************************************)
(* C14.  While the snapshot s of the latest set_rates for a date is the    *)
(* one stored, a get_rates of that date with no ttl returns a snapshot     *)
(* equal to s in every field: date, bulletin number, the rates in order    *)
(* with all their values, and the warning.                                 *)
(***************************************************************************)
C14_WriteReadRoundTrip ==
    \A target_date \in CacheDates :
        ~IsNone(written[target_date])
        => LET s   == The(written[target_date])
               got == ReadRow(target_date, None, "none")
           IN  /\ got.kind = "return"
               /\ ~IsNone(got.value)
               /\ The(got.value).date = s.date
               /\ The(got.value).bulletin_no = s.bulletin_no
               /\ Len(The(got.value).rates) = Len(s.rates)
               /\ \A i \in 1..Len(s.rates) : The(got.value).rates[i] = s.rates[i]
               /\ The(got.value).warning = s.warning

\* A get_rates with no ttl has returned the stored snapshot, which has a
\* rate value, an empty rate value and a warning
C14_Witness ==
    \E target_date \in CacheDates :
        /\ cache_ret.op = "get_rates"
        /\ cache_ret.fail = "none"
        /\ cache_ret.ttl = None
        /\ cache_ret.target = Some(target_date)
        /\ cache_ret.kind = "return"
        /\ cache_ret.value = written[target_date]
        /\ ~IsNone(written[target_date])
        /\ ~IsNone(The(written[target_date]).warning)
        /\ ~IsNone(The(written[target_date]).rates[1].forex_buying)
        /\ IsNone(The(written[target_date]).rates[1].banknote_buying)


(***************************************************************************)
(* C15.  get_rates, is_cache_valid and get_cached_dates never change the   *)
(* rows of the table.  A row that a get_rates with a ttl reports as absent *)
(* because it has expired is still there afterwards: a get_rates with no   *)
(* ttl then returns its snapshot and get_cached_dates lists its date.      *)
(***************************************************************************)
C15_ReadsLeaveStore ==
    /\ [][ cache_ret'.op \in { "get_rates", "is_cache_valid", "get_cached_dates" }
           => exchange_rates' = exchange_rates ]_vars
    /\ [](\A target_date \in CacheDates :
             (/\ cache_ret.op = "get_rates"
              /\ cache_ret.fail = "none"
              /\ cache_ret.target = Some(target_date)
              /\ \E r \in exchange_rates :
                    /\ r.date = IsoTable[target_date]
                    /\ IsExpired(wall - datetime_fromisoformat(r.fetched_at),
                                 cache_ret.ttl))
             => /\ cache_ret.value = None
                /\ ~IsNone(written[target_date])
                /\ ReadRow(target_date, None, "none")
                       = [kind |-> "return", value |-> written[target_date]]
                /\ \E i \in 1..Len(OrderByDateDesc(exchange_rates)) :
                       date_fromisoformat(OrderByDateDesc(exchange_rates)[i].date)
                           = Some(target_date))

\* A get_rates with a ttl has reported an expired row as absent and the
\* row is in the table
C15_Witness ==
    \E target_date \in CacheDates, r \in exchange_rates :
        /\ cache_ret.op = "get_rates"
        /\ cache_ret.fail = "none"
        /\ cache_ret.target = Some(target_date)
        /\ r.date = IsoTable[target_date]
        /\ IsExpired(wall - datetime_fromisoformat(r.fetched_at), cache_ret.ttl)
        /\ cache_ret.kind = "return"
        /\ cache_ret.value = None


(***************************************************************************)
(* C16.  A clear_old_cache(days) that meets no storage failure deletes     *)
(* exactly the rows whose date is strictly before today - days, returns    *)
(* the number of rows it deleted, and leaves unchanged every row dated on  *)
(* or after that cutoff, the cutoff date included.                         *)
(***************************************************************************)
C16_PurgeStrictlyBeforeCutoff ==
    [][ (cache_ret'.op = "clear_old_cache" /\ cache_ret'.fail = "none")
        => LET cutoff == today - The(cache_ret'.target)
               kept   == { r \in exchange_rates :
                             \E d \in CacheDates : r.date = IsoTable[d] /\ d >= cutoff }
           IN  /\ exchange_rates' = kept
               /\ cache_ret'.kind = "return"
               /\ cache_ret'.value = Cardinality(exchange_rates) - Cardinality(kept)
      ]_vars

\* A clear_old_cache has deleted one row and left the row of the cutoff date
C16_Witness ==
    /\ cache_ret.op = "clear_old_cache"
    /\ cache_ret.fail = "none"
    /\ cache_ret.kind = "return"
    /\ cache_ret.value = 1
    /\ \E r \in exchange_rates : r.date = IsoTable[today - The(cache_ret.target)]


(***************************************************************************)
(* C17.  When flows run set_rates for the same date at the same time, the  *)
(* table holds at most one row for the date; the row is, in payload,       *)
(* fetched_at and expires_at together, the row of one of the writes that   *)
(* were committed, and it is there once a write has been committed.  A     *)
(* get_rates at any moment of this returns None or the snapshot of a       *)
(* committed write, never a mixture of two writes.                         *)
(***************************************************************************)
C17_ConcurrentWritesAreWhole ==
    LET Committed == { w \in Writers : conn[w].pc = "committed" }
    IN  /\ \A r1 \in exchange_rates, r2 \in exchange_rates : r1.date = r2.date => r1 = r2
        /\ \A r \in exchange_rates : \E w \in Committed : conn[w].row = Some(r)
        /\ Committed # { } => \E r \in exchange_rates : r.date = IsoTable[FirstDate]
        /\ ReadRow(FirstDate, None, "none")
               \in { [kind |-> "return", value |-> None] }
                   \cup { [kind |-> "return", value |-> conn[w].rates] : w \in Committed }

\* Two flows have committed different snapshots stamped at different times
\* and the row of one of them is in the table, while a third has executed its
\* row and holds the lock
C17_Witness ==
    \E w1 \in Writers, w2 \in Writers, w3 \in Writers :
        /\ conn[w1].pc = "committed"
        /\ conn[w2].pc = "committed"
        /\ conn[w3].pc = "executed"
        /\ conn[w1].rates # conn[w2].rates
        /\ The(conn[w1].row).fetched_at # The(conn[w2].row).fetched_at
        /\ The(conn[w1].row).expires_at # The(conn[w2].row).expires_at
        /\ The(conn[w1].row) \in exchange_rates
        /\ cache_ret.op = "set_rates"
        /\ cache_ret.changed


(***************************************************************************)
(* C18.  A get_today_rates or get_rates_for_date called while _client is   *)
(* None (before __aenter__ or after __aexit__) makes one call of           *)
(* _fetch_with_retry, which raises TCMBConnectionError with no GET issued, *)
(* no sleep taken and _last_request_time unchanged; the call then ends     *)
(* with that error, also when handle_holidays is True: no recovery call is *)
(* made for it.                                                            *)
(***************************************************************************)
C18_FetchWithoutSession ==
    [][ \A f \in Flows :
          /\ (IsNone(_client) /\ ~InCall(f) /\ fl'[f].pc # fl[f].pc)
             => /\ fl'[f].pc = "fetched"
                /\ fl'[f].fres.kind = "TCMBConnectionError"
                /\ Len(fl'[f].fetch_urls) = 1
                /\ fl'[f].n_gets = 0
                /\ fl'[f].slept = << >>
                /\ fl'[f].wake = 0
                /\ _last_request_time' = _last_request_time
                /\ last_get' = last_get
                /\ now' = now
          /\ (/\ fl[f].pc = "fetched"
              /\ fl[f].fres.kind = "TCMBConnectionError"
              /\ fl[f].n_gets = 0
              /\ fl'[f].pc # "fetched")
             => /\ fl'[f].pc = "done"
                /\ fl'[f].result.kind = "TCMBConnectionError"
                /\ fl'[f].depth = 0
                /\ Len(fl'[f].fetch_urls) = 1
                /\ fl'[f].n_gets = 0
                /\ _last_request_time' = _last_request_time
                /\ last_get' = last_get
                /\ now' = now
      ]_vars

\* After a released session that had issued a GET, a get_rates_for_date
\* with handle_holidays for a holiday has ended in TCMBConnectionError
C18_Witness ==
    /\ IsNone(_client)
    /\ _last_request_time > 0
    /\ fl[1].pc = "done"
    /\ fl[1].op = "date"
    /\ fl[1].req_hh
    /\ is_holiday(fl[1].req_date)
    /\ fl[1].result.kind = "TCMBConnectionError"
    /\ fl[1].n_gets = 0
    /\ Len(fl[1].fetch_urls) = 1


(***************************************************************************)
(* C19.  Whatever the holiday tables hold, get_previous_business_day(d)    *)
(* returns exactly when some day of d-30 .. d-1 is a business day, and     *)
(* get_next_business_day(d) exactly when some day of d+1 .. d+30 is;       *)
(* otherwise they raise ValueError.  The loop condition looks at one more  *)
(* day each time, so the search ends after looking at no more than 30.     *)
(***************************************************************************)
C19_SearchIsBounded ==
    /\ [](/\ Len(cal.examined) <= 30
          /\ \A i \in 1..Len(cal.examined) :
                cal.examined[i] = IF cal.fn = "previous" THEN cal.d - i ELSE cal.d + i
          /\ cal.pc \in { "returned", "raised" }
             => (cal.pc = "returned"
                 <=> \E k \in 1..30 :
                        ~is_holiday(IF cal.fn = "previous" THEN cal.d - k ELSE cal.d + k))
          /\ (cal.pc = "returned" /\ cal.fn = "previous")
             => get_previous_business_day(cal.d) = Some(cal.current)
          /\ (cal.pc = "raised" /\ cal.fn = "previous")
             => get_previous_business_day(cal.d) = None
          /\ (cal.pc = "returned" /\ cal.fn = "next")
             => get_next_business_day(cal.d) = Some(cal.current)
          /\ (cal.pc = "raised" /\ cal.fn = "next")
             => get_next_business_day(cal.d) = None)
    /\ [][ cal.pc = "loop" /\ cal' # cal
           => Len(cal'.examined) = Len(cal.examined) + 1 ]_vars

\* The only business day of the range is d-30: the search has looked at 30
\* days and returned it
C19_Witness ==
    /\ cal.fn = "previous"
    /\ cal.pc = "returned"
    /\ cal.current = cal.d - 30
    /\ Len(cal.examined) = 30
    /\ ~is_holiday(cal.d - 31)

(***************************************************************************)
(* C20.  When get_previous_business_day(d) returns r, r is a business day  *)
(* strictly before d and every day strictly between r and d is a holiday;  *)
(* d itself is not returned even when it is a business day.                *)
(* get_next_business_day is the mirror image, r strictly after d.          *)
(***************************************************************************)
C20_NearestBusinessDay ==
    cal.pc = "returned"
    => /\ ~is_holiday(cal.current)
       /\ cal.fn = "previous"
          => /\ cal.current < cal.d
             /\ \A x \in (cal.current + 1) .. (cal.d - 1) : is_holiday(x)
       /\ cal.fn = "next"
          => /\ cal.current > cal.d
             /\ \A x \in (cal.d + 1) .. (cal.current - 1) : is_holiday(x)

\* d is a business day; the search before it has passed holidays and
\* returned an earlier day
C20_Witness ==
    /\ cal.fn = "previous"
    /\ cal.pc = "returned"
    /\ ~is_holiday(cal.d)
    /\ cal.d - cal.current > 3

(***************************************************************************)
(* C21.  is_holiday(d) holds exactly when d is a Saturday or a Sunday, or  *)
(* d's (month, day) is in the fixed-holiday set, or d is an entry of the   *)
(* religious-holiday table, whatever the two tables contain; a date in a   *)
(* year of which the religious table has no entry is never flagged as a    *)
(* religious holiday.                                                      *)
(***************************************************************************)
\* 13 April 2024 was a Saturday
IsSaturdayOrSunday(d) == (d - date(2024, 4, 13)) % 7 \in { 0, 1 }

YearOf(d) == CHOOSE y \in 2020 .. 2030 : DaysBeforeYear(y) < d /\ d <= DaysBeforeYear(y + 1)

\* Ramazan Bayrami of 2023 and of 2027, years RELIGIOUS_HOLIDAYS does not list
UnlistedYearDates == { date(2023, 4, 21), date(2027, 3, 10) }

C21_NonTradingDays ==
    /\ \A d \in CalendarFirst .. CalendarLast :
          /\ is_holiday(d) <=> \/ IsSaturdayOrSunday(d)
                               \/ << YMD(d).month, YMD(d).day >> \in fixed_holidays
                               \/ d \in religious_holidays
          /\ IsSaturdayOrSunday(d) => is_holiday(d)
    /\ \A d \in UnlistedYearDates \cup { CalendarFirst, CalendarLast } :
          YearOf(d) \notin { YearOf(h) : h \in religious_holidays }
              => ~is_religious_holiday(d)

\* A search over empty tables has looked at a Saturday and walked past it
C21_Witness ==
    /\ fixed_holidays = { }
    /\ religious_holidays = { }
    /\ \E i \in 1 .. Len(cal.examined) :
          /\ i < Len(cal.examined)
          /\ IsSaturdayOrSunday(cal.examined[i])
          /\ weekday(cal.examined[i]) = 5

(***************************************************************************)
(* C22.  For a currency record whose Unit is absent or cannot be read as   *)
(* an integer (blank, non-numeric), the parser gives unit 1 and still      *)
(* returns a snapshot that holds the record: no malformed field of a       *)
(* record aborts the parse of a well-formed, dated document.               *)
(***************************************************************************)
HasCode(elem) == ~IsNone(elem.CurrencyCode) /\ The(elem.CurrencyCode) # << >>

\* The records of the document that carry a code, in document order
Coded(doc) == SelectSeq(doc.currencies, HasCode)

UnitOrDefault(elem) ==
    IF IsNone(elem.Unit) \/ IsNone(int(The(elem.Unit))) THEN 1
    ELSE The(int(The(elem.Unit)))

IsDated(doc) ==
    /\ doc.wf
    /\ ~IsNone(doc.Tarih)
    /\ The(doc.Tarih) # << >>
    /\ _parse_date(The(doc.Tarih)).kind = "ok"

C22_UnparsableUnitDefaultsToOne ==
    (parse_ret # NoParse /\ IsDated(xml_document))
    => /\ parse_ret.kind = "ok"
       /\ Len(parse_ret.rates.rates) = Len(Coded(xml_document))
       /\ \A i \in 1..Len(Coded(xml_document)) :
             parse_ret.rates.rates[i].unit = UnitOrDefault(Coded(xml_document)[i])

(***************************************************************************)
(* C23.  Every rate of a snapshot the parser returns has unit > 0, and     *)
(* every value of it that is present is non-negative.                      *)
(***************************************************************************)
C23_UnitPositiveRatesNonNegative ==
    parse_ret.kind = "ok"
    => \A i \in 1..Len(parse_ret.rates.rates) :
          LET rate == parse_ret.rates.rates[i]
          IN  /\ rate.unit > 0
              /\ \A m \in RateMembers : ~IsNone(rate[m]) => ~The(rate[m]).neg

(***************************************************************************)
(* C24.  The parser raises TCMBAPIError, and returns no snapshot, when the *)
(* text is not well-formed markup and when the root has no Tarih           *)
(* attribute or an empty one.                                              *)
(***************************************************************************)
C24_MalformedOrUndatedRaises ==
    (/\ parse_ret # NoParse
     /\ \/ ~xml_document.wf
        \/ IsNone(xml_document.Tarih)
        \/ The(xml_document.Tarih) = << >>)
    => /\ parse_ret.kind = "TCMBAPIError"
       /\ "rates" \notin DOMAIN parse_ret

\* A well-formed document with a record and no Tarih has been refused
C24_Witness ==
    /\ xml_document.wf
    /\ IsNone(xml_document.Tarih)
    /\ xml_document.currencies # << >>
    /\ parse_ret.kind = "TCMBAPIError"

(***************************************************************************)
(* C25.  Every failure of the parser is a TCMBAPIError: a Tarih attribute  *)
(* that is present and is no valid DD.MM.YYYY date (wrong number of        *)
(* parts, non-numeric parts, day or month out of range) makes it raise     *)
(* TCMBAPIError and no other kind of error.                                *)
(***************************************************************************)
C25_EveryFailureIsTCMBAPIError ==
    parse_ret.kind \notin { "none", "ok" } => parse_ret.kind = "TCMBAPIError"

(***************************************************************************)
(* C26.  The rates of the returned snapshot are the records of the         *)
(* document that carry a code, in document order: records without a code   *)
(* are skipped, none with a code is dropped, moved or merged with another  *)
(* of the same code, no record gives an empty list, and the snapshot's     *)
(* warning is None.                                                        *)
(***************************************************************************)
C26_RatesInDocumentOrder ==
    parse_ret.kind = "ok"
    => LET coded == Coded(xml_document)
           rates == parse_ret.rates.rates
       IN  /\ Len(rates) = Len(coded)
           /\ \A i \in 1..Len(coded) :
                 /\ rates[i].code = The(coded[i].CurrencyCode)
                 /\ rates[i].forex_buying = _parse_decimal(coded[i].ForexBuying)
                 /\ rates[i].unit = IF IsNone(coded[i].Unit) THEN 1
                                    ELSE The(int(The(coded[i].Unit)))
           /\ xml_document.currencies = << >> => rates = << >>
           /\ parse_ret.rates.warning = None

\* Two records of one code and different units: both are in the snapshot,
\* in the order of the document
C26_Witness ==
    /\ parse_ret.kind = "ok"
    /\ Len(parse_ret.rates.rates) = 2
    /\ parse_ret.rates.rates[1].code = parse_ret.rates.rates[2].code
    /\ parse_ret.rates.rates[1].unit = 3
    /\ parse_ret.rates.rates[2].unit = 100

(***************************************************************************)
(* C27.  get_historical_url(d) is exactly the base URL, "/kurlar/", the    *)
(* year and month as YYYYMM, "/", the day, month and year as DDMMYYYY and  *)
(* ".xml", day and month zero-padded; the URL a fetch uses is that of its  *)
(* date whatever else the call has done, and different dates have          *)
(* different URLs.                                                         *)
(***************************************************************************)
ExpectedUrl(y, m, d) ==
    << "https://www.tcmb.gov.tr", "/kurlar/" >>
        \o IntDigits((y * 100) + m)
        \o << "/" >>
        \o (IF d < 10 THEN << "0" >> ELSE << >>)
        \o IntDigits((d * 1000000) + (m * 10000) + y)
        \o << ".xml" >>

\* The examples, and one URL for one date
C27_Examples ==
    /\ get_historical_url(date(2024, 1, 5))
          = << "https://www.tcmb.gov.tr", "/kurlar/", "2", "0", "2", "4", "0", "1", "/",
               "0", "5", "0", "1", "2", "0", "2", "4", ".xml" >>
    /\ get_historical_url(date(2024, 12, 25))
          = << "https://www.tcmb.gov.tr", "/kurlar/", "2", "0", "2", "4", "1", "2", "/",
               "2", "5", "1", "2", "2", "0", "2", "4", ".xml" >>
    /\ \A d1 \in FetchDates, d2 \in FetchDates :
          d1 # d2 => get_historical_url(d1) # get_historical_url(d2)

C27_HistoricalUrl ==
    /\ \A f \in Flows :
          (fl[f].op = "date" /\ fl[f].url # << >>)
          => fl[f].url = ExpectedUrl(YMD(fl[f].target_date).year,
                                     YMD(fl[f].target_date).month,
                                     YMD(fl[f].target_date).day)
    /\ C27_Examples

\* A recovery fetch is on its way for a day of one digit: the URL has the
\* padded day
C27_Witness ==
    \E f \in Flows :
        /\ fl[f].op = "date"
        /\ fl[f].depth = 1
        /\ fl[f].pc = "get"
        /\ YMD(fl[f].target_date).day < 10
        /\ SubSeq(fl[f].url, 10, 11) = << "0", Digit(YMD(fl[f].target_date).day) >>

(***************************************************************************)
(* C28.  get_unit_rate returns None exactly when the rate is absent; for a *)
(* present rate r and unit u it returns r / u exactly in decimal           *)
(* arithmetic (20.3456 with unit 100 gives exactly 0.203456).              *)
(*                                                                         *)
(* As stated this fails: the division is done in the default context of 28 *)
(* significant digits, so 20.3456 / 3 comes back rounded, and a unit of 0  *)
(* raises instead of returning.  What holds: None exactly for an absent    *)
(* rate; a unit of 0 with a present rate raises; any other unit returns    *)
(* the exact quotient when it has at most 28 significant digits, and       *)
(* otherwise the 28-digit decimal within half a unit of its last place of  *)
(* it.                                                                     *)
(***************************************************************************)
\* int(digits) * k and int(digits) + k, for a small k >= 0
RECURSIVE MulDigitsCarry(_, _, _)
MulDigitsCarry(digits, k, carry) ==
    IF digits = << >> THEN (IF carry = 0 THEN << >> ELSE IntDigits(carry))
    ELSE LET cur == (DigitVal(digits[Len(digits)]) * k) + carry
         IN  Append(MulDigitsCarry(SubSeq(digits, 1, Len(digits) - 1), k, cur \div 10),
                    Digit(cur % 10))

MulDigits(digits, k) == StripLeadingZeros(MulDigitsCarry(digits, k, 0))

RECURSIVE AddDigitsCarry(_, _)
AddDigitsCarry(digits, carry) ==
    IF digits = << >> THEN (IF carry = 0 THEN << >> ELSE IntDigits(carry))
    ELSE LET cur == DigitVal(digits[Len(digits)]) + carry
         IN  Append(AddDigitsCarry(SubSeq(digits, 1, Len(digits) - 1), cur \div 10),
                    Digit(cur % 10))

AddDigits(digits, k) == StripLeadingZeros(AddDigitsCarry(digits, k))

\* int(a) <= int(b), for a and b without leading zeros
LeqDigits(a, b) ==
    \/ Len(a) < Len(b)
    \/ /\ Len(a) = Len(b)
       /\ \/ a = b
          \/ \E i \in 1..Len(a) :
                /\ SubSeq(a, 1, i - 1) = SubSeq(b, 1, i - 1)
                /\ DigitVal(a[i]) < DigitVal(b[i])

Abs(n) == IF n < 0 THEN 0 - n ELSE n

\* |q| * |u| and |r| as integers of the unit 10^min(q.exp, r.exp)
ScaledProduct(q, r, u) ==
    MulDigits(q.digits \o Zeros(q.exp - Min(q.exp, r.exp)), Abs(u))
ScaledRate(q, r) ==
    StripLeadingZeros(IntDigits(r.coeff) \o Zeros(r.exp - Min(q.exp, r.exp)))

SignOfQuotient(q, r, u) == r.coeff = 0 \/ q.neg = (r.neg # (u < 0))

\* q * u = r
IsExactQuotient(q, r, u) ==
    /\ SignOfQuotient(q, r, u)
    /\ ScaledProduct(q, r, u) = ScaledRate(q, r)

\* q has prec digits and |q * u - r| <= |u| / 2 units of q's last place
IsRoundedQuotient(q, r, u) ==
    /\ SignOfQuotient(q, r, u)
    /\ Len(q.digits) = DecimalPrec
    /\ q.exp <= r.exp
    /\ LeqDigits(MulDigits(ScaledProduct(q, r, u), 2),
                 AddDigits(MulDigits(ScaledRate(q, r), 2), Abs(u)))
    /\ LeqDigits(MulDigits(ScaledRate(q, r), 2),
                 AddDigits(MulDigits(ScaledProduct(q, r, u), 2), Abs(u)))

Called(ret) == ret.kind # "none"
RateAsked(ret) == get_rate(ret.self, ret.rate_type)

\* The statement as it stands: the exact quotient for every present rate
C28_UnitRateExactQuotient ==
    Called(unit_ret)
    => /\ unit_ret.kind = "return"
       /\ IsNone(unit_ret.value) <=> IsNone(RateAsked(unit_ret))
       /\ ~IsNone(RateAsked(unit_ret))
          => IsExactQuotient(The(unit_ret.value), The(RateAsked(unit_ret)), unit_ret.self.unit)

C28_UnitRateQuotient ==
    Called(unit_ret)
    => LET rate == RateAsked(unit_ret)
           unit == unit_ret.self.unit
       IN  /\ IsNone(rate) => unit_ret.kind = "return" /\ IsNone(unit_ret.value)
           /\ (~IsNone(rate) /\ unit = 0) => unit_ret.kind = "raise"
           /\ (~IsNone(rate) /\ unit # 0)
              => /\ unit_ret.kind = "return"
                 /\ ~IsNone(unit_ret.value)
                 /\ Len(The(unit_ret.value).digits) <= DecimalPrec
                 /\ \/ IsExactQuotient(The(unit_ret.value), The(rate), unit)
                    \/ IsRoundedQuotient(The(unit_ret.value), The(rate), unit)
           /\ (rate = Some([neg |-> FALSE, coeff |-> 203456, exp |-> -4]) /\ unit = 100)
              => unit_ret.value
                    = Some([neg |-> FALSE, digits |-> << "2", "0", "3", "4", "5", "6" >>,
                            exp |-> -6])

\* 20.3456 quoted for 3 units: the quotient does not end and comes back with
\* 28 digits
C28_Witness ==
    /\ Called(unit_ret)
    /\ unit_ret.self.unit = 3
    /\ RateAsked(unit_ret) = Some([neg |-> FALSE, coeff |-> 203456, exp |-> -4])
    /\ unit_ret.kind = "return"
    /\ Len(The(unit_ret.value).digits) = DecimalPrec
    /\ ~IsExactQuotient(The(unit_ret.value), The(RateAsked(unit_ret)), 3)

(***************************************************************************)
(* C29.  When the task is cancelled while _fetch_with_retry is in the      *)
(* throttle sleep, in the GET or in a backoff sleep, the call stops there: *)
(* it ends raising CancelledError, so nothing is returned to the caller,   *)
(* and as long as the caller starts no new call no further GET goes out    *)
(* and no further attempt or sleep of the fetch happens.                   *)
(***************************************************************************)
C29_Stopped ==
    \A f \in Flows :
        fl[f].cancelled
        => /\ fl[f].pc = "cancelled"
           /\ fl[f].fres = CancelledError
           /\ fl[f].result = CancelledError
           /\ fl[f].n_gets <= fl[f].attempt + 1

C29_CancelStopsFetch ==
    /\ []C29_Stopped
    /\ [][\A f \in Flows :
             (fl[f].cancelled /\ fl'[f].cancelled)
             => /\ fl'[f] = fl[f]
                /\ last_get' = last_get
                /\ _last_request_time' = _last_request_time]_vars

\* Cancelled in the backoff sleep after the first attempt: the second attempt
\* is not made
C29_Witness ==
    \E f \in Flows :
        /\ fl[f].cancelled
        /\ fl[f].pc = "cancelled"
        /\ fl[f].slept = << BackoffDelay(0) >>
        /\ fl[f].n_gets = 1
        /\ HasNextAttempt(fl[f].attempt)

\* Cancelled in the throttle sleep: no GET at all
C29_WitnessThrottle ==
    \E f \in Flows : fl[f].cancelled /\ fl[f].n_gets = 0 /\ fl[f].fetch_urls # << >>

\* Cancelled in the GET
C29_WitnessGet ==
    \E f \in Flows : fl[f].cancelled /\ fl[f].last_resp.kind = "CancelledError"

(***************************************************************************)
(* C30.  Within one _fetch_with_retry call the attempts come one after the *)
(* other: a GET goes out only when every earlier attempt of the call has   *)
(* ended in a retryable failure.  After the retryably failed attempt i     *)
(* (from 0) that is not the last, the call sleeps retry_delay * 2^i, and   *)
(* attempt i + 1 begins when that sleep is over and not before; after the  *)
(* last attempt it does not sleep, it raises.                              *)
(***************************************************************************)
\* retry_delay, doubled i times
RECURSIVE Doubled(_, _)
Doubled(delay, i) == IF i = 0 THEN delay ELSE Doubled(delay + delay, i - 1)

C30_Sleeps ==
    \A f \in Flows :
        /\ Len(fl[f].slept) = Min(fl[f].n_retryable, MaxRetries - 1)
        /\ \A k \in 1..Len(fl[f].slept) : fl[f].slept[k] = Doubled(RetryDelay, k - 1)
        /\ fl[f].pc = "get"
           => /\ fl[f].n_gets = fl[f].attempt + 1
              /\ fl[f].n_retryable = fl[f].attempt
        /\ fl[f].pc = "sleep_retry"
           => /\ fl[f].attempt < MaxRetries - 1
              /\ fl[f].n_gets = fl[f].attempt + 1
              /\ fl[f].n_retryable = fl[f].attempt + 1
              /\ fl[f].last_resp # Pending

C30_SequentialBackoff ==
    /\ []C30_Sleeps
    /\ [][\A f \in Flows :
             /\ (fl[f].pc # "sleep_retry" /\ fl'[f].pc = "sleep_retry")
                => /\ fl[f].pc = "get"
                   /\ fl'[f].attempt = fl[f].attempt
                   /\ fl'[f].wake = now + Doubled(RetryDelay, fl[f].attempt)
             /\ (fl[f].pc = "sleep_retry" /\ fl'[f].pc # "sleep_retry")
                => /\ now >= fl[f].wake
                   /\ fl'[f].pc \in { "sleep_throttle", "get" }
                   /\ fl'[f].attempt = fl[f].attempt + 1
             /\ (fl[f].pc = "sleep_retry" /\ fl'[f].pc = "sleep_retry")
                => fl'[f] = fl[f]
             /\ (fl[f].pc = "get" /\ fl[f].attempt = MaxRetries - 1 /\ fl'[f] # fl[f])
                => fl'[f].pc = "fetched"]_vars

\* The third attempt is on its way: the call has slept retry_delay and then
\* twice retry_delay
C30_Witness ==
    \E f \in Flows :
        /\ fl[f].pc = "get"
        /\ fl[f].attempt = 2
        /\ fl[f].slept = << RetryDelay, 2 * RetryDelay >>

\* The last attempt failed retryably and the call raised without a sleep
C30_WitnessLast ==
    \E f \in Flows :
        /\ fl[f].pc = "fetched"
        /\ fl[f].n_retryable = MaxRetries
        /\ Len(fl[f].slept) = MaxRetries - 1
        /\ fl[f].fres = TCMBConnectionError

(***************************************************************************)
(* C31.  A _fetch_with_retry call on an open session moves only along      *)
(* Idle -> Throttling -> Requesting -> Success, or RetryableFailure and    *)
(* Throttling again, or Failed: every GET goes out at the end of the       *)
(* throttle of its own attempt, which stamps the request time and has let  *)
(* request_delay pass since the stamp before.  Whatever the server         *)
(* answers, the call gets to Success or Failed (every step brings it       *)
(* nearer, and it always has a step to take), and once there it takes no   *)
(* step.                                                                   *)
(***************************************************************************)
InFetch(f) == fl[f].pc \in { "sleep_throttle", "get", "sleep_retry" }

\* The moves of the state machine between two suspensions of one fetch:
\* << from, to, attempts begun in between >>
FetchMoves ==
    { << "sleep_throttle", "get", 0 >>,       \* Throttling -> Requesting
      << "get", "sleep_retry", 0 >>,          \* Requesting -> RetryableFailure
      << "get", "fetched", 0 >>,              \* Requesting -> Success | Failed
      << "sleep_retry", "sleep_throttle", 1 >>,   \* RetryableFailure -> Throttling
      << "sleep_retry", "get", 1 >> }         \* the same, the throttle having nothing to wait for

\* What is left of a fetch: its attempts, the suspension the attempt is at and
\* the time left of that suspension
FetchRank(me) ==
    LET phase == CASE me.pc = "sleep_throttle" -> 2
                   [] me.pc = "get" -> 1
                   [] OTHER -> 0
    IN  ((MaxRetries - me.attempt) * 3 + phase) * (MaxWait + 1) + WaitLeft(me)

FetchOver(me) ==
    /\ me.pc = "fetched"
    /\ me.fres.kind # "none"
    /\ me.fres.kind = "text" <=> Is2xxResp(me.last_resp)

C31_FetchStateMachine ==
    /\ [][\A f \in Flows :
             /\ (InFetch(f) /\ fl'[f].pc # fl[f].pc)
                => /\ << fl[f].pc, fl'[f].pc, fl'[f].attempt - fl[f].attempt >> \in FetchMoves
                   /\ fl'[f].fetch_urls = fl[f].fetch_urls
                   /\ fl'[f].pc = "fetched" => FetchOver(fl'[f])
             /\ (InFetch(f) /\ fl'[f].pc = fl[f].pc) => fl'[f] = fl[f]
             /\ (fl'[f].pc = "get" /\ fl'[f] # fl[f])
                => /\ fl'[f].n_gets = fl'[f].attempt + 1
                   /\ _last_request_time' = now
                   /\ _last_request_time > 0 => now - _last_request_time >= RequestDelay
             /\ (fl[f].pc = "fetched" /\ fl'[f] # fl[f] /\ fl'[f].fetch_urls = fl[f].fetch_urls)
                => /\ fl'[f].pc = "done"
                   /\ fl'[f].n_gets = fl[f].n_gets
                   /\ fl'[f].fres = fl[f].fres]_vars
    /\ [][_last_request_time' # _last_request_time
            => \E f \in Flows : fl'[f].pc = "get" /\ fl'[f] # fl[f]]_vars
    /\ [](InFetch(1) => /\ FetchRank(fl[1]) >= 0
                        /\ ENABLED (Tick \/ WakeThrottle(1) \/ Respond(1) \/ WakeRetry(1)))
    /\ [][(InFetch(1) /\ InFetch(1)' /\ (fl' # fl \/ now' # now))
            => FetchRank(fl[1])' < FetchRank(fl[1])]_vars

\* The first attempt failed retryably, the second had to wait for the
\* throttle, and its GET brought the text
C31_Witness ==
    \E f \in Flows :
        /\ fl[f].pc = "fetched"
        /\ fl[f].fres.kind = "text"
        /\ fl[f].n_gets = 2
        /\ fl[f].n_retryable = 1

(***************************************************************************)
(* C32.  get_rates_for(date, handle_holidays=True) with a non-trading date *)
(* never asks for the URL of the date itself: the first URL is that of the *)
(* nearest trading day before it, the calendar having been asked before    *)
(* any request goes out, and no later fetch of the call asks for it        *)
(* either.                                                                 *)
(***************************************************************************)
\* The nearest day before d that is not a holiday
NearestTradingDayBefore(d) ==
    CHOOSE e \in (d - 30) .. (d - 1) :
        /\ ~is_holiday(e)
        /\ \A x \in (e + 1) .. (d - 1) : is_holiday(x)

C32_SubstitutedBeforeRequest ==
    \A f \in Flows :
        (/\ fl[f].op = "date"
         /\ fl[f].req_hh
         /\ is_holiday(fl[f].req_date)
         /\ fl[f].fetch_urls # << >>)
        => LET p == NearestTradingDayBefore(fl[f].req_date)
           IN  /\ fl[f].fetch_urls[1] = get_historical_url(p)
               /\ \A i \in 1..Len(fl[f].fetch_urls) :
                     fl[f].fetch_urls[i] # get_historical_url(fl[f].req_date)
               /\ fl[f].url # get_historical_url(fl[f].req_date)
               /\ fl[f].depth = 0
                  => /\ fl[f].target_date = p
                     /\ fl[f].original_date = fl[f].req_date
                     /\ fl[f].url = get_historical_url(p)
               /\ fl[f].n_gets <= fl[f].attempt + 1

\* A Sunday was asked for, and the GET on its way is the one for the trading
\* day before the holidays that precede it
C32_Witness ==
    \E f \in Flows :
        /\ fl[f].op = "date"
        /\ fl[f].req_hh
        /\ is_weekend(fl[f].req_date)
        /\ fl[f].pc = "get"
        /\ fl[f].depth = 0
        /\ fl[f].n_gets = 1
        /\ fl[f].req_date - fl[f].target_date > 2

(***************************************************************************)
(* C38.  _fetch_with_retry ends only by returning the text of a response,  *)
(* by raising TCMBAPIError or by raising TCMBConnectionError: a transport  *)
(* failure of an attempt, a timeout, a failure to connect or any other     *)
(* (a read error in mid-response), is retried, and the httpx exception     *)
(* never reaches the caller.                                               *)
(***************************************************************************)
IsTransportFailure(r) == r.kind \notin { "none", "pending", "response", "CancelledError" }

C38_TransportFailuresRetried ==
    \A f \in Flows :
        /\ fl[f].pc = "fetched"
           => fl[f].fres.kind \in { "text", "TCMBAPIError", "TCMBConnectionError" }
        /\ (fl[f].pc = "fetched" /\ IsTransportFailure(fl[f].last_resp))
           => /\ fl[f].n_gets = MaxRetries
              /\ fl[f].fres = TCMBConnectionError
        /\ fl[f].pc = "done"
           => fl[f].result.kind \in { "ok", "TCMBAPIError", "TCMBConnectionError", "ValueError" }

(***************************************************************************)
(* C36.  A snapshot that get_rates_for returns after fetching the URL of a *)
(* date other than the requested one carries a non-empty advisory; so      *)
(* does, in particular, the snapshot of the recovery fetch made after the  *)
(* 404 of a trading day asked for with handle_holidays=True.               *)
(***************************************************************************)
C36_AdvisoryOnEverySubstitution ==
    \A f \in Flows :
        (/\ fl[f].pc = "done"
         /\ fl[f].op = "date"
         /\ fl[f].result.kind = "ok"
         /\ fl[f].fetch_urls[Len(fl[f].fetch_urls)] # get_historical_url(fl[f].req_date))
        => /\ ~IsNone(fl[f].result.rates.warning)
           /\ The(fl[f].result.rates.warning) # << >>

(***************************************************************************)
(* C37.  The ttl_seconds given to set_rates changes no later read.  It     *)
(* goes into column expires_at and nowhere else: what a set_rates leaves   *)
(* in the other columns is the same for every ttl, and get_rates and       *)
(* is_cache_valid answer from the other columns alone, the age of          *)
(* fetched_at against the ttl of the read deciding the freshness.  Two     *)
(* stores that differ in the ttls of their writes therefore differ in      *)
(* column expires_at only, and answer alike.                               *)
(***************************************************************************)
\* The table without column expires_at
WithoutExpiresAt(rows) ==
    { [date |-> r.date, data |-> r.data, fetched_at |-> r.fetched_at] : r \in rows }

\* What a read of target_date with ttl_seconds finds in such a table
ReadWithoutExpiresAt(rows, target_date, ttl_seconds) ==
    LET found == { r \in rows : r.date = IsoTable[target_date] }
    IN  IF found = { } THEN None
        ELSE LET row == CHOOSE r \in found : TRUE
             IN  IF /\ ~IsNone(ttl_seconds)
                    /\ wall - datetime_fromisoformat(row.fetched_at) > The(ttl_seconds)
                 THEN None
                 ELSE written[target_date]

C37_WriteTtlNeverRead ==
    /\ [](\A target_date \in CacheDates :
            (/\ cache_ret.op \in { "get_rates", "is_cache_valid" }
             /\ cache_ret.fail = "none"
             /\ cache_ret.target = Some(target_date))
            => LET found == ReadWithoutExpiresAt(WithoutExpiresAt(exchange_rates),
                                                 target_date, cache_ret.ttl)
               IN  /\ cache_ret.kind = "return"
                   /\ cache_ret.value = IF cache_ret.op = "get_rates" THEN found
                                        ELSE ~IsNone(found))
    /\ [][(/\ cache_ret'.op = "set_rates"
           /\ cache_ret'.fail = "none")
          => LET d == The(cache_ret'.target)
             IN  WithoutExpiresAt(exchange_rates')
                    = { r \in WithoutExpiresAt(exchange_rates) : r.date # IsoTable[d] }
                      \cup { [date |-> IsoTable[d],
                              data |-> DumpTable[The(written'[d])],
                              fetched_at |-> datetime_isoformat(wall)] }]_vars
    /\ [][cache_ret'.op # "set_rates"
          => \A r \in exchange_rates' : \E q \in exchange_rates : q = r]_vars

\* A row written with a ttl whose expires_at has come is read with no ttl,
\* and its snapshot is returned
C37_Witness ==
    \E r \in exchange_rates :
        /\ cache_ret.op = "get_rates"
        /\ cache_ret.fail = "none"
        /\ cache_ret.ttl = None
        /\ ~IsNone(cache_ret.target)
        /\ r.date = IsoTable[The(cache_ret.target)]
        /\ ~IsNone(r.expires_at)
        /\ datetime_fromisoformat(The(r.expires_at)) <= wall
        /\ cache_ret.kind = "return"
        /\ ~IsNone(cache_ret.value)


(***************************************************************************)
(* C33.  With caching enabled, get_historical_rates and get_current_rates  *)
(* consult the cache before any outbound request: on a fresh hit they      *)
(* return the cached snapshot and issue no request; on a miss they fetch,  *)
(* and they write to the cache only after fetch and parse both succeeded,  *)
(* so that a failed fetch leaves the cache unchanged.                      *)
(***************************************************************************)
\* The rows of date d whose age does not exceed the TTL of tool `op`
FreshRows(rows, op, d) ==
    { r \in rows :
        /\ r.date = IsoTable[d]
        /\ (wall - datetime_fromisoformat(r.fetched_at)) * 24 * 60 * 60
              <= (IF op = "current" THEN cache_ttl_today ELSE cache_ttl_historical)
                    * TicksPerDay }

\* The step is the call of a tool
IsToolCall == tool.pc \in { "idle", "done" } /\ tool'.pc \in { "miss", "done" } /\ tool' # tool

C33_CacheBeforeFetch ==
    \* the call reads the cache and sends nothing; it ends at once exactly on a
    \* fresh row, with the snapshot of that row
    /\ [][IsToolCall
            => /\ fl'[1] = IdleFlow
               /\ _last_request_time' = _last_request_time
               /\ exchange_rates' = exchange_rates
               /\ tool'.hit <=> FreshRows(exchange_rates, tool'.op, tool'.date) # { }
               /\ tool'.hit <=> tool'.pc = "done"
               /\ tool'.hit
                    => /\ tool'.ret.kind = "ok"
                       /\ tool'.ret.rates \in ToolSnapshots
                       /\ \E r \in FreshRows(exchange_rates, tool'.op, tool'.date) :
                             r.data = ToolDumpTable[tool'.ret.rates]]_vars
    \* a call answered from the cache has made no request and no write
    /\ [](tool.hit => /\ fl[1].fetch_urls = << >>
                      /\ fl[1].pc = "idle"
                      /\ ~tool.stored
                      /\ exchange_rates = tool.rows0)
    \* requests go out only after the miss
    /\ [](fl[1] # IdleFlow => tool.pc \in { "miss", "done" } /\ ~tool.hit)
    \* after a miss the client is called
    /\ [](tool.pc = "miss" /\ fl[1].pc = "idle" => ENABLED ToolFetches)
    /\ [](tool.pc = "done" /\ ~tool.hit => Len(fl[1].fetch_urls) >= 1)
    \* the table changes only when the client call has returned a snapshot
    \* parsed from a fetched text, by the row of that snapshot
    /\ [][exchange_rates' # exchange_rates
            => /\ tool.pc = "miss"
               /\ fl[1].pc = "done"
               /\ fl[1].fres.kind = "text"
               /\ ParseTable[fl[1].fres.text].kind = "ok"
               /\ fl[1].result.kind = "ok"
               /\ tool'.stored
               /\ tool'.ret = fl[1].result
               /\ \E r \in exchange_rates' :
                     /\ r.date = IsoTable[fl[1].result.rates.date]
                     /\ r.data = ToolDumpTable[fl[1].result.rates]
                     /\ exchange_rates' = Upsert(exchange_rates, r)]_vars
    \* a call whose fetch failed leaves the table as it found it
    /\ [](tool.pc = "miss" => exchange_rates = tool.rows0)
    /\ [](tool.pc = "done" /\ tool.ret.kind # "ok"
            => ~tool.stored /\ exchange_rates = tool.rows0)

\* A call was answered from the cache
C33_Witness ==
    /\ tool.pc = "done"
    /\ tool.hit
    /\ tool.ret.kind = "ok"
    /\ fl[1].fetch_urls = << >>

\* A call missed, its fetch failed after a retry, and the table is unchanged
C33_WitnessFailedFetch ==
    /\ tool.pc = "done"
    /\ ~tool.hit
    /\ tool.ret.kind = "TCMBConnectionError"
    /\ tool.rows0 # { }
    /\ exchange_rates = tool.rows0

\* A call missed, fetched and stored what it returned
C33_WitnessStored ==
    /\ tool.pc = "done"
    /\ tool.stored
    /\ tool.op = "current"
    /\ exchange_rates # tool.rows0

(***************************************************************************)
(* C34.  With caching enabled, after get_historical_rates(d) (or           *)
(* get_current_rates on day d) has returned successfully, an identical     *)
(* request made within the TTL is answered from the cache with no outbound *)
(* request, for every d including non-trading dates and days on which the  *)
(* published bulletin's date differs from d.                               *)
(***************************************************************************)
\* The earlier calls of tool `op` for date d that fetched, stored and returned
\* a snapshot no longer ago than the tool's TTL
ServedWithinTtl(op, d) ==
    { s \in tool.served :
        /\ s[1] = op
        /\ s[2] = d
        /\ (wall - s[3]) * 24 * 60 * 60
              <= (IF op = "current" THEN cache_ttl_today ELSE cache_ttl_historical)
                    * TicksPerDay }

C34_RepeatAnsweredFromCache ==
    [][IsToolCall /\ ServedWithinTtl(tool'.op, tool'.date) # { }
         => /\ tool'.hit
            /\ tool'.pc = "done"
            /\ tool'.ret.kind = "ok"]_vars

(***************************************************************************)
(* C35.  After any sequence of earlier requests, get_historical_rates(d)   *)
(* for a trading day d whose own bulletin is available returns a snapshot  *)
(* with no advisory: an advisory produced while serving a request for a    *)
(* different (non-trading) date is never returned for d.                   *)
(***************************************************************************)
C35_NoAdvisoryOfAnotherDate ==
    /\ tool.pc = "done"
    /\ tool.op = "historical"
    /\ ~is_holiday(tool.date)
    /\ tool.ret.kind = "ok"
    /\ tool.ret.rates.date = tool.date
    => IsNone(tool.ret.rates.warning)


(***************************************************************************)
(* C39.  get_rate_history raises CurrencyNotFound only when at least one   *)
(* snapshot for a day in the range was obtained and did not contain the    *)
(* requested currency; a range in which every day's fetch failed is not    *)
(* reported as CurrencyNotFound.                                           *)
(***************************************************************************)
C39_CurrencyNotFoundMeansMissingCurrency ==
    /\ hist.pc = "done"
    /\ hist.ret.kind = "TCMBCurrencyNotFoundError"
    => \E o \in hist.obtained :
          /\ o[1] \in hist.start .. hist.end
          /\ ~o[2]

====
